---- MODULE Spec2Model ----
(***************************************************************************)
(* A model of the two cores of xray-oxide-core:                            *)
(*   - lzhuf::decode::Decoder, the adaptive-Huffman + LZSS decompressor;   *)
(*   - filesystem::Filesystem, the virtual filesystem built from a         *)
(*     configuration file, a directory walk and the archives it finds.     *)
(* Each subsystem has its own specification over the shared variables; the *)
(* variables of the other subsystem stay at their initial values.          *)
(***************************************************************************)
EXTENDS Integers, Sequences, FiniteSets, TLC

(***************************************************************************)
(* Generic helpers: strict sequential loops of logarithmic evaluation depth *)
(***************************************************************************)

\* The value of a singleton set. An operator that reads a computed argument
\* more than once takes it through Val({.. : x \in {argument}}): the argument
\* is computed once, in program order, and x is its value.
Val(S) == CHOOSE x \in S : TRUE

\* for i in lo..hi-1 { s = Body(s, i) }
RECURSIVE For(_, _, _, _)
For(Body(_, _), s0, lo, hi) ==
  IF lo >= hi THEN s0
  ELSE IF hi = lo + 1 THEN Val({Body(s, lo) : s \in {s0}})
  ELSE Val({For(Body, s1, (lo + hi) \div 2, hi) :
              s1 \in {For(Body, s0, lo, (lo + hi) \div 2)}})

\* The least i in lo..hi-1 with P(i), or hi when there is none.
RECURSIVE FirstUp(_, _, _)
FirstUp(P(_), lo, hi) ==
  IF lo >= hi THEN hi
  ELSE IF hi = lo + 1 THEN (IF P(lo) THEN lo ELSE hi)
  ELSE Val({IF a < (lo + hi) \div 2 THEN a ELSE FirstUp(P, (lo + hi) \div 2, hi) :
              a \in {FirstUp(P, lo, (lo + hi) \div 2)}})

\* The greatest i in lo..hi-1 with P(i), or lo - 1 when there is none.
RECURSIVE FirstDown(_, _, _)
FirstDown(P(_), lo, hi) ==
  IF lo >= hi THEN lo - 1
  ELSE IF hi = lo + 1 THEN (IF P(lo) THEN lo ELSE lo - 1)
  ELSE Val({IF a >= (lo + hi) \div 2 THEN a ELSE FirstDown(P, lo, (lo + hi) \div 2) :
              a \in {FirstDown(P, (lo + hi) \div 2, hi)}})

\* The sequences over S of length at most n.
RECURSIVE SeqsUpTo(_, _)
SeqsUpTo(S, n) ==
  IF n = 0 THEN {<<>>}
  ELSE LET prev == SeqsUpTo(S, n - 1)
       IN prev \cup {Append(q, x) : q \in {p \in prev : Len(p) = n - 1}, x \in S}

Pow2(n) == 2 ^ n

\* Bitwise or of two unsigned words, by their binary digits.
BitOr(a, b) ==
  LET digit(i) == IF (a \div Pow2(i)) % 2 = 1 \/ (b \div Pow2(i)) % 2 = 1
                    THEN Pow2(i) ELSE 0
      sum(s, i) == s + digit(i)
  IN For(sum, 0, 0, 17)

\* Bitwise and of two unsigned words, by their binary digits.
BitAnd(a, b) ==
  LET digit(i) == IF (a \div Pow2(i)) % 2 = 1 /\ (b \div Pow2(i)) % 2 = 1
                    THEN Pow2(i) ELSE 0
      sum(s, i) == s + digit(i)
  IN For(sum, 0, 0, 17)

\* A u32 word is kept as its two 16-bit halves [hi, lo]: the checker's
\* integers are narrower than 2^32.
U32(hi, lo) == [hi |-> hi, lo |-> lo]

\* w << n for n <= 8: the bits shifted out of the 32-bit word are dropped.
U32Shl(w, n) ==
  LET lo2 == w.lo * Pow2(n)
  IN U32((w.hi * Pow2(n) + lo2 \div 65536) % 65536, lo2 % 65536)

\* w | x for x < 2^16.
U32OrLow(w, x) == U32(w.hi, BitOr(w.lo, x))

(***************************************************************************)
(* lzhuf: constants                                                         *)
(***************************************************************************)
N == 4096
F == 60
THRESHOLD == 2
N_CHAR == 256 - THRESHOLD + F
T == N_CHAR * 2 - 1
R == T - 1
MAX_FREQ == 16384

\* 0-based tables, stored as 1-based tuples: D_CODE[i + 1] is d_code[i].
D_CODE ==
  <<
     0, 0, 0, 0, 0, 0, 0, 0, 0, 0, 0, 0, 0, 0, 0, 0,
     0, 0, 0, 0, 0, 0, 0, 0, 0, 0, 0, 0, 0, 0, 0, 0,
     1, 1, 1, 1, 1, 1, 1, 1, 1, 1, 1, 1, 1, 1, 1, 1,
     2, 2, 2, 2, 2, 2, 2, 2, 2, 2, 2, 2, 2, 2, 2, 2,
     3, 3, 3, 3, 3, 3, 3, 3, 3, 3, 3, 3, 3, 3, 3, 3,
     4, 4, 4, 4, 4, 4, 4, 4, 5, 5, 5, 5, 5, 5, 5, 5,
     6, 6, 6, 6, 6, 6, 6, 6, 7, 7, 7, 7, 7, 7, 7, 7,
     8, 8, 8, 8, 8, 8, 8, 8, 9, 9, 9, 9, 9, 9, 9, 9,
     10, 10, 10, 10, 10, 10, 10, 10, 11, 11, 11, 11, 11, 11, 11, 11,
     12, 12, 12, 12, 13, 13, 13, 13, 14, 14, 14, 14, 15, 15, 15, 15,
     16, 16, 16, 16, 17, 17, 17, 17, 18, 18, 18, 18, 19, 19, 19, 19,
     20, 20, 20, 20, 21, 21, 21, 21, 22, 22, 22, 22, 23, 23, 23, 23,
     24, 24, 25, 25, 26, 26, 27, 27, 28, 28, 29, 29, 30, 30, 31, 31,
     32, 32, 33, 33, 34, 34, 35, 35, 36, 36, 37, 37, 38, 38, 39, 39,
     40, 40, 41, 41, 42, 42, 43, 43, 44, 44, 45, 45, 46, 46, 47, 47,
     48, 49, 50, 51, 52, 53, 54, 55, 56, 57, 58, 59, 60, 61, 62, 63
  >>

D_LEN ==
  <<
     3, 3, 3, 3, 3, 3, 3, 3, 3, 3, 3, 3, 3, 3, 3, 3,
     3, 3, 3, 3, 3, 3, 3, 3, 3, 3, 3, 3, 3, 3, 3, 3,
     4, 4, 4, 4, 4, 4, 4, 4, 4, 4, 4, 4, 4, 4, 4, 4,
     4, 4, 4, 4, 4, 4, 4, 4, 4, 4, 4, 4, 4, 4, 4, 4,
     4, 4, 4, 4, 4, 4, 4, 4, 4, 4, 4, 4, 4, 4, 4, 4,
     5, 5, 5, 5, 5, 5, 5, 5, 5, 5, 5, 5, 5, 5, 5, 5,
     5, 5, 5, 5, 5, 5, 5, 5, 5, 5, 5, 5, 5, 5, 5, 5,
     5, 5, 5, 5, 5, 5, 5, 5, 5, 5, 5, 5, 5, 5, 5, 5,
     5, 5, 5, 5, 5, 5, 5, 5, 5, 5, 5, 5, 5, 5, 5, 5,
     6, 6, 6, 6, 6, 6, 6, 6, 6, 6, 6, 6, 6, 6, 6, 6,
     6, 6, 6, 6, 6, 6, 6, 6, 6, 6, 6, 6, 6, 6, 6, 6,
     6, 6, 6, 6, 6, 6, 6, 6, 6, 6, 6, 6, 6, 6, 6, 6,
     7, 7, 7, 7, 7, 7, 7, 7, 7, 7, 7, 7, 7, 7, 7, 7,
     7, 7, 7, 7, 7, 7, 7, 7, 7, 7, 7, 7, 7, 7, 7, 7,
     7, 7, 7, 7, 7, 7, 7, 7, 7, 7, 7, 7, 7, 7, 7, 7,
     8, 8, 8, 8, 8, 8, 8, 8, 8, 8, 8, 8, 8, 8, 8, 8
  >>

(***************************************************************************)
(* lzhuf: the decoder's working state as a record                           *)
(*   rd_pos   bytes of the reader consumed so far                           *)
(*   get_buf, get_len   the bit reservoir                                   *)
(*   freq, son, parent  the adaptive Huffman arrays                         *)
(* Operators that read a value return [v |-> value, d |-> state after].     *)
(***************************************************************************)

\* Decoder::new: every array zeroed, nothing read.
NewFreq == [i \in 0..T |-> 0]
NewParent == [i \in 0..(T + N_CHAR) |-> 0]
NewSon == [i \in 0..(T - 1) |-> 0]
NewTextBuf == [i \in 0..(N + F - 1) |-> 0]

\* A variant of getb that yields 255 at the end of the input.
getb_ones_at_eof(inp, d) ==
  IF d.rd_pos < Len(inp)
    THEN [v |-> inp[d.rd_pos + 1], d |-> [d EXCEPT !.rd_pos = @ + 1]]
    ELSE [v |-> 255, d |-> d]

\* reader.read_u8().map(..).unwrap_or_default(): the next byte, 0 at end of input.
getb(inp, d) ==
  IF d.rd_pos < Len(inp)
    THEN [v |-> inp[d.rd_pos + 1], d |-> [d EXCEPT !.rd_pos = @ + 1]]
    ELSE [v |-> 0, d |-> d]

\* The refill with the byte shifted one place less: get_buf |= i << (7 - get_len)
\* (i >> 1 when get_len is 8).
refill_byte_low(got) ==
  Val({[g.d EXCEPT !.get_buf = U32OrLow(@, (g.v * Pow2(8 - g.d.get_len)) \div 2),
                   !.get_len = @ + 8] : g \in {got}})

\* get_buf |= i << (8 - get_len); get_len += 8, for the byte g.v just read.
refill_byte(got) ==
  Val({[g.d EXCEPT !.get_buf = U32OrLow(@, g.v * Pow2(8 - g.d.get_len)),
                   !.get_len = @ + 8] : g \in {got}})

\* while get_len <= 8 { i = getb(); ... }
RECURSIVE refill(_, _)
refill(inp, state) ==
  Val({IF d.get_len <= 8 THEN refill(inp, refill_byte(getb(inp, d))) ELSE d :
         d \in {state}})

\* i = get_buf; get_buf <<= 1; get_len -= 1; (i & 0x8000) >> 15
take_bit(filled) ==
  Val({[v |-> BitAnd(f.get_buf.lo, 32768) \div 32768,
        d |-> [f EXCEPT !.get_buf = U32Shl(@, 1), !.get_len = @ - 1]] :
         f \in {filled}})

get_bit(inp, d) == take_bit(refill(inp, d))

\* i = get_buf; get_buf <<= 8; get_len -= 8; (i & 0xFF00) >> 8
take_byte(filled) ==
  Val({[v |-> BitAnd(f.get_buf.lo, 65280) \div 256,
        d |-> [f EXCEPT !.get_buf = U32Shl(@, 8), !.get_len = @ - 8]] :
         f \in {filled}})

get_byte(inp, d) == take_byte(refill(inp, d))

\* One pass of start_huff's first loop.
start_huff_leaf(d, i) ==
  [d EXCEPT !.freq[i] = 1, !.son[i] = i + T, !.parent[i + T] = i]

\* One pass of start_huff's second loop, where i = 2 * (j - N_CHAR).
start_huff_node(d, j) ==
  [d EXCEPT !.freq[j] = d.freq[2 * (j - N_CHAR)] + d.freq[2 * (j - N_CHAR) + 1],
            !.son[j] = 2 * (j - N_CHAR),
            !.parent[2 * (j - N_CHAR)] = j,
            !.parent[2 * (j - N_CHAR) + 1] = j]

\* start_huff without its last two statements.
start_huff_open(d) ==
  For(start_huff_node, For(start_huff_leaf, d, 0, N_CHAR), N_CHAR, R + 1)

start_huff(d) ==
  [For(start_huff_node, For(start_huff_leaf, d, 0, N_CHAR), N_CHAR, R + 1)
     EXCEPT !.freq[T] = 65535, !.parent[R] = 0]

\* The first loop of reconst with the frequencies left as they are.
reconst_collect_whole(s, i) ==
  IF s.d.son[i] >= T
    THEN [d |-> [s.d EXCEPT !.freq[s.j] = s.d.freq[i],
                           !.son[s.j] = s.d.son[i]],
          j |-> s.j + 1]
    ELSE s

\* The first loop of reconst with the frequencies halved rounding down.
reconst_collect_floor(s, i) ==
  IF s.d.son[i] >= T
    THEN [d |-> [s.d EXCEPT !.freq[s.j] = s.d.freq[i] \div 2,
                           !.son[s.j] = s.d.son[i]],
          j |-> s.j + 1]
    ELSE s

\* reconst, first loop: the leaves are compacted into the low indices with
\* halved frequencies.  s = [d, j], j being the write index.
reconst_collect(s, i) ==
  IF s.d.son[i] >= T
    THEN [d |-> [s.d EXCEPT !.freq[s.j] = (s.d.freq[i] + 1) \div 2,
                           !.son[s.j] = s.d.son[i]],
          j |-> s.j + 1]
    ELSE s

\* a.copy_within(k..k + l, k + 1); a[k] = v
insert_at(a, k, l, v) ==
  [x \in DOMAIN a |->
     IF x = k THEN v
     ELSE IF x > k /\ x <= k + l THEN a[x - 1]
     ELSE a[x]]

\* reconst, second loop, the insertion at k of the node of frequency f whose
\* left child is i.
reconst_place(d, j, i, f, k) ==
  [d EXCEPT !.freq = insert_at(@, k, j - k, f),
            !.son = insert_at(@, k, j - k, i)]

\* k = j - 1; while f < freq[k] { k -= 1 }; k += 1
reconst_point(d, j, f) ==
  LET below(x) == ~(f < d.freq[x])
  IN FirstDown(below, 0, j) + 1

reconst_scan(summed, j, i, f) ==
  Val({reconst_place(d, j, i, f, reconst_point(d, j, f)) : d \in {summed}})

\* reconst, one pass of the second loop, where i = 2 * (j - N_CHAR).
reconst_connect(d, j) ==
  reconst_scan([d EXCEPT !.freq[j] = d.freq[2 * (j - N_CHAR)]
                                      + d.freq[2 * (j - N_CHAR) + 1]],
               j, 2 * (j - N_CHAR),
               d.freq[2 * (j - N_CHAR)] + d.freq[2 * (j - N_CHAR) + 1])

\* reconst, one pass of the third loop: parent links of node i's children.
reconst_link(d, i) ==
  [d EXCEPT !.parent[d.son[i]] = i,
            !.parent[IF d.son[i] < T THEN d.son[i] + 1 ELSE d.son[i]] = i]

reconst(d) ==
  For(reconst_link,
      For(reconst_connect,
          For(reconst_collect, [d |-> d, j |-> 0], 0, T).d,
          N_CHAR, T),
      0, T)

\* The exchange without the parent links of the children of l.
update_swap_half(d, c, l, k) ==
  [d EXCEPT !.freq[c] = d.freq[l],
            !.freq[l] = k,
            !.parent[d.son[c]] = l,
            !.parent[IF d.son[c] < T THEN d.son[c] + 1 ELSE d.son[c]] = l,
            !.son[l] = d.son[c],
            !.son[c] = d.son[l]]

\* update: the exchange of node c (whose frequency was just raised to k)
\* with node l, the last node of lower frequency.
update_swap(d, c, l, k) ==
  [d EXCEPT !.freq[c] = d.freq[l],
            !.freq[l] = k,
            !.parent[d.son[c]] = l,
            !.parent[IF d.son[c] < T THEN d.son[c] + 1 ELSE d.son[c]] = l,
            !.son[l] = d.son[c],
            !.parent[d.son[l]] = c,
            !.parent[IF d.son[l] < T THEN d.son[l] + 1 ELSE d.son[l]] = c,
            !.son[c] = d.son[l]]

\* l += 1; while k > freq[l] { l += 1 }: the index the search stops at, or
\* T + 1, one past the end of freq, when no frequency from c + 2 on stops it.
update_search(d, c) ==
  LET reached(x) == ~(d.freq[c] > d.freq[x])
  IN FirstUp(reached, c + 2, T + 1)

\* update without the exchange: the node stays where it is.
update_order_kept(raised, c) == [d |-> raised, c |-> c]

\* l = c + 1; if k > freq[l] { l += 1; while k > freq[l] { l += 1 }; l -= 1; .. }
\* for d with freq[c] already incremented; returns the state and the node to
\* ascend from.
update_order(raised, c) ==
  Val({IF d.freq[c] > d.freq[c + 1]
         THEN Val({[d |-> update_swap(d, c, l, d.freq[c]), c |-> l] :
                     l \in {update_search(d, c) - 1}})
         ELSE [d |-> d, c |-> c] : d \in {raised}})

\* freq[c] += 1 and the reordering.
update_node(d, c) == update_order([d EXCEPT !.freq[c] = @ + 1], c)

\* loop { ...; c = parent[c]; if c == 0 { break } }
RECURSIVE update_loop(_, _)
RECURSIVE update_ascend(_)
update_ascend(ordered) ==
  Val({IF s.d.parent[s.c] = 0 THEN s.d ELSE update_loop(s.d, s.d.parent[s.c]) :
         s \in {ordered}})

update_loop(d, c) == update_ascend(update_node(d, c))

\* c = parent[c + T] and the loop.
update_leaf(tree, c) == Val({update_loop(d, d.parent[c + T]) : d \in {tree}})

update(d, c) ==
  update_leaf(IF d.freq[R] = MAX_FREQ THEN reconst(d) ELSE d, c)

\* while c < T { c += get_bit(); c = son[c] }
RECURSIVE decode_char_walk(_, _, _)
RECURSIVE decode_char_son(_, _, _)
decode_char_son(inp, bit, c) ==
  Val({decode_char_walk(inp, g.d, g.d.son[c + g.v]) : g \in {bit}})

decode_char_walk(inp, d, c) ==
  IF c < T THEN decode_char_son(inp, get_bit(inp, d), c) ELSE [v |-> c, d |-> d]

\* c -= T; update(c); c
decode_char_leaf(walked) ==
  Val({[v |-> w.v - T, d |-> update(w.d, w.v - T)] : w \in {walked}})

decode_char(inp, d) == decode_char_leaf(decode_char_walk(inp, d, d.son[R]))

\* while j > 0 { i = (i << 1) + get_bit(); j -= 1 }
RECURSIVE decode_position_bits(_, _, _, _)
RECURSIVE decode_position_bit(_, _, _, _)
decode_position_bit(inp, bit, i, j) ==
  Val({decode_position_bits(inp, g.d, i * 2 + g.v, j - 1) : g \in {bit}})

decode_position_bits(inp, d, i, j) ==
  IF j > 0 THEN decode_position_bit(inp, get_bit(inp, d), i, j)
  ELSE [v |-> i, d |-> d]

\* The join without the mask: c | i
decode_position_join_whole(c, bits) ==
  Val({[v |-> BitOr(c, b.v), d |-> b.d] : b \in {bits}})

\* c | (i & 0x3F)
decode_position_join(c, bits) ==
  Val({[v |-> BitOr(c, BitAnd(b.v, 63)), d |-> b.d] : b \in {bits}})

\* c = D_CODE[i] << 6; j = D_LEN[i] - 2, for the byte g.v just read.
decode_position_code(inp, byte) ==
  Val({decode_position_join(D_CODE[g.v + 1] * 64,
                            decode_position_bits(inp, g.d, g.v, D_LEN[g.v + 1] - 2)) :
         g \in {byte}})

decode_position(inp, d) == decode_position_code(inp, get_byte(inp, d))

\* output.push((c & 0xFF) as u8)
putb(out, c) == Append(out, c % 256)

\* A variant of copy_byte that reads the window one place ahead of i + k.
copy_byte_ahead(s, k) ==
  [s EXCEPT !.out = putb(@, s.text_buf[(s.src + k + 1) % N]),
            !.text_buf[s.r] = s.text_buf[(s.src + k + 1) % N] % 256,
            !.r = (@ + 1) % N,
            !.count = @ + 1]

\* One pass of the copy loop of a back-reference, for k in 0..j:
\* s = [src, out, text_buf, r, count], src being the source index i.
copy_byte(s, k) ==
  [s EXCEPT !.out = putb(@, s.text_buf[(s.src + k) % N]),
            !.text_buf[s.r] = s.text_buf[(s.src + k) % N] % 256,
            !.r = (@ + 1) % N,
            !.count = @ + 1]

(***************************************************************************)
(* filesystem: paths, options, maps                                         *)
(***************************************************************************)

\* Option<T>
None == <<>>
Some(x) == <<x>>

\* A PathBuf is the sequence of its components; an absolute path starts with
\* the root component "/".
IsAbsolute(p) == p # <<>> /\ p[1] = "/"

\* PathBuf::push: an absolute argument replaces the path.
push(p, q) == IF IsAbsolute(q) THEN q ELSE p \o q

\* The length of the last path Path::ancestors yields: "/" for an absolute
\* path, the empty path for a relative one.
LastAncestorLen(p) == IF IsAbsolute(p) THEN 1 ELSE 0

\* path.ancestors().skip(1), as a set.
ProperAncestors(p) == {SubSeq(p, 1, n) : n \in LastAncestorLen(p)..(Len(p) - 1)}

\* HashMap::new()
EmptyMap == [x \in {} |-> x]

\* HashMap::insert: the value stored under k is replaced.
insert(m, k, v) == [x \in DOMAIN m \cup {k} |-> IF x = k THEN v ELSE m[x]]

\* starts_with on strings given as sequences of characters.
starts_with(s, prefix) ==
  Len(s) >= Len(prefix) /\ SubSeq(s, 1, Len(prefix)) = prefix

\* StrExt::is_bool_true
is_bool_true(s) == s = "on" \/ s = "yes" \/ s = "true" \/ s = "1"

\* MetadataExt::is_hidden, in the build without windows_platform.
is_hidden(entry) == FALSE

\* ignore_name
ignore_name(name) == name = "Thumbs.db" \/ name = ".svn"

FS_ROOT == "$fs_root$"
ARCHIVE_HEADER_CHUNK_ID == 666

\* VirtualFile::new
VirtualFile(name, archive, size_real, size_compressed, ptr) ==
  [name |-> name, archive |-> archive, size_real |-> size_real,
   size_compressed |-> size_compressed, ptr |-> ptr]

\* FSPath::new: path = root, with add pushed when it is given.
FSPath(root, add, recurse, notify) ==
  [path |-> IF add = None THEN root ELSE push(root, add[1]),
   root |-> root, add |-> add, recurse |-> recurse, notify |-> notify]

(***************************************************************************)
(* filesystem: Filesystem::register                                         *)
(***************************************************************************)

\* A variant of register_ancestors that inserts the parent and stops.
register_parent_only(fl, path, n, archive_id) ==
  IF n < LastAncestorLen(path) THEN fl
  ELSE insert(fl, SubSeq(path, 1, n),
              VirtualFile(SubSeq(path, 1, n), archive_id, 0, 0, 0))

\* A variant of register_ancestors that keeps archive_id all the way up.
RECURSIVE register_ancestors_keep(_, _, _, _)
register_ancestors_keep(fl, path, n, archive_id) ==
  IF n < LastAncestorLen(path) THEN fl
  ELSE IF SubSeq(path, 1, n) \in DOMAIN fl
    THEN insert(fl, SubSeq(path, 1, n),
                VirtualFile(SubSeq(path, 1, n), archive_id, 0, 0, 0))
    ELSE register_ancestors_keep(
           insert(fl, SubSeq(path, 1, n),
                  VirtualFile(SubSeq(path, 1, n), archive_id, 0, 0, 0)),
           path, n - 1, archive_id)

\* The loop over path.ancestors().skip(1), at the ancestor of n components:
\* the entry is inserted (replacing one that exists); an entry that existed
\* ends the loop, otherwise archive_id is cleared and the climb goes on.
RECURSIVE register_ancestors(_, _, _, _)
register_ancestors(fl, path, n, archive_id) ==
  IF n < LastAncestorLen(path) THEN fl
  ELSE IF SubSeq(path, 1, n) \in DOMAIN fl
    THEN insert(fl, SubSeq(path, 1, n),
                VirtualFile(SubSeq(path, 1, n), archive_id, 0, 0, 0))
    ELSE register_ancestors(
           insert(fl, SubSeq(path, 1, n),
                  VirtualFile(SubSeq(path, 1, n), archive_id, 0, 0, 0)),
           path, n - 1, None)

register(fl, path, archive, size_real, size_compressed, ptr) ==
  register_ancestors(
    insert(fl, path, VirtualFile(path, archive, size_real, size_compressed, ptr)),
    path, Len(path) - 1, archive)

(***************************************************************************)
(* The disk the Filesystem is built from                                    *)
(***************************************************************************)

\* Directory entries: kind is "dir", "file" or "link" (a symbolic link to a
\* file); ext is the file name's extension as characters, None without one.
DirEntry(name, kind, ext, size) ==
  [name |-> name, kind |-> kind, ext |-> ext, size |-> size]

FsRootDir == <<"/", "g">>
DataDir == <<"/", "g", "data">>
TexDir == <<"/", "g", "data", "tex">>
SkipDir == <<"/", "g", "data", "skip">>
ArcDir == <<"/", "g", "arc">>

DiskDirs == {<<"/">>, FsRootDir, DataDir, TexDir, SkipDir, ArcDir}

\* read_dir(dir), for the directories of the disk.
Listing(dir) ==
  CASE dir = <<"/">> -> {DirEntry("g", "dir", None, 0)}
    [] dir = FsRootDir ->
         {DirEntry("fsgame.ltx", "file", Some(<<"l", "t", "x">>), 2),
          DirEntry("data", "dir", None, 0),
          DirEntry("arc", "dir", None, 0)}
    [] dir = DataDir ->
         {DirEntry("cfg.ltx", "file", Some(<<"l", "t", "x">>), 7),
          DirEntry("tex", "dir", None, 0),
          DirEntry("skip", "dir", None, 0)}
    [] dir = TexDir ->
         {DirEntry("sky.dds", "file", Some(<<"d", "d", "s">>), 5)}
    [] dir = SkipDir ->
         {DirEntry(".xrignore", "file", None, 0),
          DirEntry("old.ltx", "file", Some(<<"l", "t", "x">>), 1)}
    [] dir = ArcDir ->
         {DirEntry("a.db0", "file", Some(<<"d", "b", "0">>), 48),
          DirEntry("b.xdb", "file", Some(<<"x", "d", "b">>), 32),
          DirEntry("a2.db1", "link", Some(<<"d", "b", "1">>), 0),
          DirEntry("Thumbs.db", "file", Some(<<"d", "b">>), 3)}
    [] OTHER -> {}

\* The plain files and links of the disk, by path.
DiskFiles ==
  UNION {{push(dir, <<e.name>>) : e \in {x \in Listing(dir) : x.kind # "dir"}} :
           dir \in DiskDirs}

\* Path::exists
exists(p) == p \in DiskDirs \/ p \in DiskFiles

\* std::fs::canonicalize: a link resolves to its target.
canonicalize(p) ==
  IF p = push(ArcDir, <<"a2.db1">>) THEN push(ArcDir, <<"a.db0">>) ELSE p

\* File::open(path)?.metadata()?.len()
file_len(p) ==
  IF p = push(ArcDir, <<"a.db0">>) THEN 48
  ELSE IF p = push(ArcDir, <<"b.xdb">>) THEN 32
  ELSE 0

\* The record of the operation a step performed: register(path, archive, ..),
\* process_archive(path), read_to_string(path), or none of these. stop is
\* where the operation's search ended: for register the number of components
\* of the ancestor that had an entry already, for process_archive the index
\* of the Archive found in the list, -1 when there was none.
Call(op, path, archive, stop) ==
  [op |-> op, path |-> path, archive |-> archive, stop |-> stop]
NoCall == Call("none", <<>>, None, -1)

\* register's loop: the ancestor at which insert(..).is_some() breaks.
first_existing(fl, path) ==
  LET known(n) == SubSeq(path, 1, n) \in DOMAIN fl
  IN IF FirstDown(known, LastAncestorLen(path), Len(path)) < LastAncestorLen(path)
       THEN -1
       ELSE FirstDown(known, LastAncestorLen(path), Len(path))

(***************************************************************************)
(* State                                                                    *)
(***************************************************************************)
VARIABLES
  \* lzhuf::decode::Decoder
  reader,        \* the input stream, a sequence of bytes
  rd_pos,        \* number of bytes of reader consumed
  output,        \* Vec<u8> of decoded bytes
  text_buf,      \* the sliding window, [u8; N + F]
  freq, parent, son,
  tim_size,
  get_buf, get_len,
  text_size,     \* decode's local: the size prefix
  r, count,      \* decode's locals: write cursor and emitted bytes
  dpc,           \* decode's position: "none", "new", "loop", "done", "err"
  \* lzhuf::decode::test
  test_data,     \* the plain bytes the input stream was encoded from
  test_symbols,  \* the literals and back-references they were encoded as
  \* filesystem::Filesystem
  fs_root, paths, files, archives,
  fs_ltx,        \* the lines of the configuration file
  images,        \* the content of the archive files, by canonical path
  fpc,           \* initialize's position: "none", "init", "scan", "ready",
                 \* "failed" (an Err was returned), "panicked"
  line_idx,      \* initialize's loop: the line being read, from 1
  cur,           \* initialize's locals of the line being scanned: id, path
  stack,         \* the calls of recurse in progress, innermost first
  loading,       \* load_archive's locals while its buffers are registered
  call,          \* the operation the last step performed
  read_result,   \* what the last read_to_string returned
  \* filesystem::archive::open_chunk
  container,     \* the bytes of the file behind the BufReader
  chunk_id,      \* the argument id
  chunk_pos,     \* the reader's position
  cpc,           \* open_chunk's position: "none", "loop", "decompress",
                 \* "some" (Ok(Some(..)) was returned), "err"
  source_data,   \* the bytes read_exact filled
  chunk_result,  \* the Vec<u8> returned
  records,       \* the records the container was written from
  \* lzhuf::decode::Decoder, the tree alone
  schedule,      \* which symbols decode_char comes to: "none" or a name
  updates,       \* the calls of update so far
  reconsts,      \* the calls of reconst so far
  \* lzhuf::decode::Decoder, the bit reservoir alone
  delivered      \* what get_bit and get_byte returned so far, in order

lzhVars == <<reader, rd_pos, output, text_buf, freq, parent, son, tim_size,
             get_buf, get_len, text_size, r, count, dpc>>

fsVars == <<fs_root, paths, files, archives, fs_ltx, images, fpc, line_idx,
            cur, stack, loading, call, read_result>>

testVars == <<test_data, test_symbols>>

chunkVars == <<container, chunk_id, chunk_pos, cpc, source_data, chunk_result,
               records>>

treeVars == <<schedule, updates, reconsts>>

bitVars == <<delivered>>

vars == <<lzhVars, testVars, fsVars, chunkVars, treeVars, bitVars>>

\* No run of the reservoir alone is followed.
BitsIdle == delivered = <<>>

\* No run of the tree alone is followed.
TreeIdle ==
  /\ schedule = "none"
  /\ updates = 0
  /\ reconsts = 0

\* open_chunk is not running.
ChunkIdle ==
  /\ container = <<>>
  /\ chunk_id = 0
  /\ chunk_pos = 0
  /\ cpc = "none"
  /\ source_data = <<>>
  /\ chunk_result = <<>>
  /\ records = <<>>

\* No Filesystem is constructed.
FsIdle ==
  /\ fs_root = <<>>
  /\ paths = EmptyMap
  /\ files = EmptyMap
  /\ archives = <<>>
  /\ fs_ltx = <<>>
  /\ images = EmptyMap
  /\ fpc = "none"
  /\ line_idx = 0
  /\ cur = None
  /\ stack = <<>>
  /\ loading = None
  /\ call = NoCall
  /\ read_result = None

\* No Decoder is constructed.
DecoderIdle ==
  /\ reader = <<>>
  /\ rd_pos = 0
  /\ output = <<>>
  /\ text_buf = <<>>
  /\ freq = <<>>
  /\ parent = <<>>
  /\ son = <<>>
  /\ tim_size = 0
  /\ get_buf = U32(0, 0)
  /\ get_len = 0
  /\ text_size = 0
  /\ r = 0
  /\ count = 0
  /\ dpc = "none"
  /\ test_data = <<>>
  /\ test_symbols = <<>>

\* The decoder's working record, from and to the variables.
DecoderState ==
  [rd_pos |-> rd_pos, get_buf |-> get_buf, get_len |-> get_len,
   freq |-> freq, son |-> son, parent |-> parent]

SetDecoderState(d) ==
  /\ rd_pos' = d.rd_pos
  /\ get_buf' = d.get_buf
  /\ get_len' = d.get_len
  /\ freq' = d.freq
  /\ son' = d.son
  /\ parent' = d.parent

\* read_u32::<LittleEndian>() of the first four bytes.
read_u32_le(inp) == inp[1] + 256 * inp[2] + 65536 * inp[3] + 16777216 * inp[4]

(***************************************************************************)
(* lzhuf: Decoder::decode as a state machine, one action per loop pass      *)
(***************************************************************************)

\* Decoder::new(reader)
DecoderNew(inp) ==
  /\ reader = inp
  /\ rd_pos = 0
  /\ output = <<>>
  /\ text_buf = NewTextBuf
  /\ freq = NewFreq
  /\ parent = NewParent
  /\ son = NewSon
  /\ tim_size = 0
  /\ get_buf = U32(0, 0)
  /\ get_len = 0
  /\ text_size = 0
  /\ r = 0
  /\ count = 0
  /\ dpc = "new"

\* A variant of decode_enter that leaves the window as Decoder::new made it.
decode_enter_unfilled(ts) ==
  /\ dpc' = "loop"
  /\ text_size' = ts
  /\ output' = <<>>
  /\ \E d \in {start_huff([DecoderState EXCEPT !.rd_pos = 4])} : SetDecoderState(d)
  /\ text_buf' = text_buf
  /\ r' = N - F
  /\ count' = 0
  /\ UNCHANGED <<reader, tim_size>>

\* The state at the loop's entry: init_output, start_huff, the window filled
\* with spaces below N - F.
decode_enter(ts) ==
  /\ dpc' = "loop"
  /\ text_size' = ts
  /\ output' = <<>>
  /\ \E d \in {start_huff([DecoderState EXCEPT !.rd_pos = 4])} : SetDecoderState(d)
  /\ text_buf' = [i \in DOMAIN text_buf |-> IF i < N - F THEN 32 ELSE text_buf[i]]
  /\ r' = N - F
  /\ count' = 0
  /\ UNCHANGED <<reader, tim_size>>

\* A variant of decode_empty that consumes the bytes after the prefix.
decode_empty_drains ==
  /\ dpc' = "done"
  /\ rd_pos' = Len(reader)
  /\ text_size' = 0
  /\ output' = <<>>
  /\ UNCHANGED <<reader, text_buf, freq, parent, son, tim_size,
                 get_buf, get_len, r, count>>

\* if text_size == 0 { return Ok(Vec::new()) }: only the prefix was read.
decode_empty ==
  /\ dpc' = "done"
  /\ rd_pos' = 4
  /\ text_size' = 0
  /\ output' = <<>>
  /\ UNCHANGED <<reader, text_buf, freq, parent, son, tim_size,
                 get_buf, get_len, r, count>>

\* decode, up to the loop: the size prefix is read; a prefix that cannot be
\* read is the error returned, a zero prefix returns the empty buffer.
decode_begin ==
  /\ dpc = "new"
  /\ IF Len(reader) < 4
       THEN /\ dpc' = "err"
            /\ UNCHANGED <<reader, rd_pos, output, text_buf, freq, parent, son,
                           tim_size, get_buf, get_len, text_size, r, count>>
       ELSE IF read_u32_le(reader) = 0
         THEN decode_empty
         ELSE decode_enter(read_u32_le(reader))
  /\ UNCHANGED <<testVars, fsVars, chunkVars, treeVars, bitVars>>

\* The literal branch: putb(c); text_buf[r] = c; r = (r + 1) & (N - 1); count += 1
decode_literal(dc) ==
  /\ output' = putb(output, dc.v)
  /\ text_buf' = [text_buf EXCEPT ![r] = dc.v % 256]
  /\ r' = (r + 1) % N
  /\ count' = count + 1
  /\ SetDecoderState(dc.d)

\* The state after the copy loop s of a back-reference.
decode_copied(d, s) ==
  /\ output' = s.out
  /\ text_buf' = s.text_buf
  /\ r' = s.r
  /\ count' = s.count
  /\ SetDecoderState(d)

\* A variant of decode_match that copies one byte more than j.
decode_match_longer(c, dp) ==
  \E s \in {For(copy_byte,
                [src |-> (r - (dp.v + 1)) % N, out |-> output,
                 text_buf |-> text_buf, r |-> r, count |-> count],
                0, c - 255 + THRESHOLD + 1)} :
    decode_copied(dp.d, s)

\* The back-reference branch for symbol c and decoded position dp.v:
\* i = r.wrapping_sub(pos + 1) & (N - 1); j = c - 255 + THRESHOLD
decode_match(c, dp) ==
  \E s \in {For(copy_byte,
                [src |-> (r - (dp.v + 1)) % N, out |-> output,
                 text_buf |-> text_buf, r |-> r, count |-> count],
                0, c - 255 + THRESHOLD)} :
    decode_copied(dp.d, s)

decode_branch(dc) ==
  IF dc.v < 256 THEN decode_literal(dc)
  ELSE \E dp \in {decode_position(reader, dc.d)} : decode_match(dc.v, dp)

\* One pass of decode's while loop: a literal or a back-reference.
decode_symbol ==
  /\ dpc = "loop"
  /\ count < text_size
  /\ \E dc \in {decode_char(reader, DecoderState)} : decode_branch(dc)
  /\ UNCHANGED <<reader, tim_size, text_size, dpc>>
  /\ UNCHANGED <<testVars, fsVars, chunkVars, treeVars, bitVars>>

\* The loop's exit: tim_size = count; Ok(output).
decode_end ==
  /\ dpc = "loop"
  /\ ~(count < text_size)
  /\ tim_size' = count
  /\ dpc' = "done"
  /\ UNCHANGED <<reader, rd_pos, output, text_buf, freq, parent, son,
                 get_buf, get_len, text_size, r, count>>
  /\ UNCHANGED <<testVars, fsVars, chunkVars, treeVars, bitVars>>

(***************************************************************************)
(* Input sets of the decoder                                                *)
(***************************************************************************)
MaxTextSize == 3
MaxBodyLen == 3

\* Bytes of the compressed body: 140 and 197 start a back-reference of length
\* 3 and 60 in the initial tree, 0 and 255 are what a truncated or padded
\* stream holds.
BodyBytes == {0, 140, 197, 255}

u32_le(n) == <<n % 256, (n \div 256) % 256, (n \div 65536) % 256, (n \div 16777216) % 256>>

LzhInputs ==
  {u32_le(ts) \o body : ts \in 0..MaxTextSize, body \in SeqsUpTo(BodyBytes, MaxBodyLen)}
  \cup {SubSeq(u32_le(1), 1, n) : n \in 0..3}

InitLzh ==
  /\ \E inp \in LzhInputs : DecoderNew(inp)
  /\ test_data = <<>>
  /\ test_symbols = <<>>
  /\ FsIdle
  /\ ChunkIdle
  /\ TreeIdle
  /\ BitsIdle

NextLzh == decode_begin \/ decode_symbol \/ decode_end

SpecLzh == InitLzh /\ [][NextLzh]_vars
(***************************************************************************)
(* filesystem: archives                                                     *)
(***************************************************************************)

\* Ini, reduced to the two keys of section "header" the code reads.
Ini(auto_load, entry_point) == [auto_load |-> auto_load, entry_point |-> entry_point]
IniNew == Ini(None, None)
is_empty(ini) == ini = IniNew

\* Archive::new(path, index)
Archive(path, index) ==
  [path |-> path, index |-> index, header |-> IniNew, size |-> file_len(path)]

\* An archive file is a sequence of chunks [id, compressed, data]: id is the
\* type word without ARCHIVE_COMPRESS_FLAG, compressed is that flag, data is
\* what the chunk's bytes hold once read (and decompressed when flagged).
Chunk(id, compressed, data) == [id |-> id, compressed |-> compressed, data |-> data]

\* open_chunk: the first chunk whose id matches; reading past the last chunk
\* is the Err of read_u32.
open_chunk(image, id) ==
  LET matches(i) == image[i].id = id
  IN IF FirstUp(matches, 1, Len(image) + 1) > Len(image)
       THEN [kind |-> "Err", data |-> <<>>]
       ELSE [kind |-> "Some",
             data |-> image[FirstUp(matches, 1, Len(image) + 1)].data]

\* What process_archive leaves behind: where initialize goes on, the archives
\* list, and the buffers load_archive has still to register.
Outcome(pc, arcs, ld) == [fpc |-> pc, archives |-> arcs, loading |-> ld]

\* entry_point.split_once('\\'): the index of the first backslash of the
\* entry point, given as its sequence of tokens; past the end without one.
split_once(entry_point) ==
  LET is_backslash(i) == entry_point[i] = "\\"
  IN FirstUp(is_backslash, 1, Len(entry_point) + 1)

\* A variant of read_path that leaves out what follows the backslash.
read_path_alias_only(pths, alias, add) ==
  IF alias \in DOMAIN pths THEN push(<<>>, pths[alias].path) ELSE <<>>

\* load_archive's read_path: the aliased path when paths knows the alias,
\* the empty path otherwise, with add pushed.
read_path(pths, alias, add) ==
  push(IF alias \in DOMAIN pths THEN push(<<>>, pths[alias].path) ELSE <<>>, add)

\* ChunkBuffersIter: the sub-records {u16 len; len bytes} of a chunk, up to
\* the first one whose len bytes are not all there (read_exact fails, next
\* returns None).
ChunkBuffersIter(chunk) ==
  LET cut(i) == chunk[i].truncated
  IN SubSeq(chunk, 1, FirstUp(cut, 1, Len(chunk) + 1) - 1)

\* load_archive, from open_chunk(1) on.
load_archive_chunk(arcs, index, entry_point, chunk) ==
  IF chunk.kind = "Err" THEN Outcome("failed", arcs, None)
  ELSE IF chunk.kind = "None" THEN Outcome("panicked", arcs, None)
  ELSE Outcome("scan", arcs,
               IF ChunkBuffersIter(chunk.data) = <<>> THEN None
               ELSE Some([archive_index |-> arcs[index + 1].index,
                          entry_point |-> entry_point,
                          buffers |-> ChunkBuffersIter(chunk.data)]))

\* load_archive, from the entry point read out of the header on.
load_archive_entry_point(pths, imgs, arcs, index, entry_point) ==
  IF entry_point = <<"gamedata">> THEN Outcome("panicked", arcs, None)
  ELSE IF split_once(entry_point) > Len(entry_point)
    THEN Outcome("panicked", arcs, None)
    ELSE load_archive_chunk(
           arcs, index,
           read_path(pths,
                     SubSeq(entry_point, 1, split_once(entry_point) - 1),
                     SubSeq(entry_point, split_once(entry_point) + 1, Len(entry_point))),
           open_chunk(imgs[arcs[index + 1].path], 1))

load_archive(pths, imgs, arcs, index) ==
  IF is_empty(arcs[index + 1].header) THEN Outcome("panicked", arcs, None)
  ELSE IF arcs[index + 1].header.entry_point = None
    THEN Outcome("panicked", arcs, None)
    ELSE load_archive_entry_point(pths, imgs, arcs, index,
                                  arcs[index + 1].header.entry_point[1])

\* A variant of process_archive_load that loads whatever auto_load holds.
process_archive_load_always(pths, imgs, arcs, index) ==
  load_archive(pths, imgs, arcs, index)

\* process_archive, once the header is stored: load when auto_load is true.
process_archive_load(pths, imgs, arcs, index) ==
  IF arcs[index + 1].header.auto_load # None
     /\ is_bool_true(arcs[index + 1].header.auto_load[1])
    THEN load_archive(pths, imgs, arcs, index)
    ELSE Outcome("scan", arcs, None)

\* process_archive, from open_chunk(ARCHIVE_HEADER_CHUNK_ID) on; arcs holds
\* the Archive just pushed.
process_archive_header(pths, imgs, arcs, index, header) ==
  IF header.kind = "Err" THEN Outcome("failed", arcs, None)
  ELSE IF header.kind = "None" THEN load_archive(pths, imgs, arcs, index)
  ELSE process_archive_load(pths, imgs,
                            [arcs EXCEPT ![index + 1].header = header.data], index)

\* A variant of is_archive that finds no Archive.
is_archive_never(arcs, path) == FALSE

\* archives.iter().any(|archive| archive.path() == &path)
is_archive(arcs, path) == \E i \in 1..Len(arcs) : arcs[i].path = path

\* The index of the Archive of the list that any(..) finds.
archive_position(arcs, path) ==
  LET found(i) == arcs[i].path = path
  IN IF FirstUp(found, 1, Len(arcs) + 1) > Len(arcs) THEN -1
     ELSE FirstUp(found, 1, Len(arcs) + 1) - 1

\* A variant of process_archive that numbers the Archives from 1.
process_archive_from_one(pths, imgs, arcs, path) ==
  IF is_archive(arcs, path) THEN Outcome("scan", arcs, None)
  ELSE process_archive_header(pths, imgs,
                              Append(arcs, Archive(path, Len(arcs) + 1)), Len(arcs),
                              open_chunk(imgs[path], ARCHIVE_HEADER_CHUNK_ID))

\* process_archive(path), path canonical.
process_archive(pths, imgs, arcs, path) ==
  IF is_archive(arcs, path) THEN Outcome("scan", arcs, None)
  ELSE process_archive_header(pths, imgs,
                              Append(arcs, Archive(path, Len(arcs))), Len(arcs),
                              open_chunk(imgs[path], ARCHIVE_HEADER_CHUNK_ID))

\* What a read returns, by where the bytes come from: kind "archive" is the
\* slice [start, start + len) of the archive file at path, run through the
\* lzo1x decompressor when lzo is set; kind "disk" is the file at path; kind
\* "NotFound" is the error.
ReadResult(kind, path, start, len, lzo) ==
  [kind |-> kind, path |-> path, start |-> start, len |-> len, lzo |-> lzo]

\* Archive::map(start, Some(len)): the slice of the archive file.
map(archive, start, len) == ReadResult("archive", archive.path, start, len, FALSE)

\* A variant of file_from_archive that maps size_real bytes.
file_from_archive_real(arcs, archive, file) ==
  [map(arcs[archive + 1], file.ptr, file.size_real)
     EXCEPT !.lzo = file.size_compressed # file.size_real]

\* file_from_archive: the slice [ptr, ptr + size_compressed) of the archive,
\* copied when the two sizes are equal and decompressed otherwise.
file_from_archive(arcs, archive, file) ==
  [map(arcs[archive + 1], file.ptr, file.size_compressed)
     EXCEPT !.lzo = file.size_compressed # file.size_real]

string_from_archive(arcs, archive, file) == file_from_archive(arcs, archive, file)

\* std::fs::read_to_string(file.name())
disk_read_to_string(name) == ReadResult("disk", name, 0, 0, FALSE)

NotFound(path) == ReadResult("NotFound", path, 0, 0, FALSE)

\* Filesystem::read_to_string
fs_read_to_string(fl, arcs, path) ==
  IF path \notin DOMAIN fl THEN NotFound(path)
  ELSE IF fl[path].archive # None
    THEN string_from_archive(arcs, fl[path].archive[1], fl[path])
    ELSE disk_read_to_string(fl[path].name)

(***************************************************************************)
(* filesystem: Filesystem::initialize as a state machine                    *)
(***************************************************************************)

\* A line of the configuration file: comment is line.starts_with(';'),
\* has_eq is whether the line holds '=', id is the text before it as a path,
\* values are the '|'-separated fields after it (the third and fourth, root
\* and add, as paths).
Line(comment, has_eq, id, values) ==
  [comment |-> comment, has_eq |-> has_eq, id |-> id, values |-> values]

\* A call of recurse(path, recurse) in progress: dir holds the entries
\* read_dir has still to yield.
Frame(path, recurse) == [path |-> path, recurse |-> recurse, dir |-> Listing(path)]

\* recurse(path, ..) reaches its loop: no .xrignore, and read_dir is Ok.
recurse_enters(path) ==
  ~exists(push(path, <<".xrignore">>)) /\ path \in DiskDirs

\* The stack once the innermost read_dir has yielded entry.
Consumed(entry) == [stack EXCEPT ![1].dir = @ \ {entry}]

\* The loop of recurse goes on to its next entry, nothing registered.
recurse_continue(entry) ==
  /\ stack' = Consumed(entry)
  /\ call' = NoCall
  /\ UNCHANGED <<files, archives, fpc, loading>>

\* process_single, a directory: registered, then recursed into.
process_single_dir(entry, path, recurse) ==
  IF ~recurse \/ entry.name = "." \/ entry.name = ".."
    THEN recurse_continue(entry)
    ELSE /\ files' = register(files, path, None, 0, 0, 0)
         /\ call' = Call("register", path, None, first_existing(files, path))
         /\ stack' = IF recurse_enters(path)
                       THEN <<Frame(path, recurse)>> \o Consumed(entry)
                       ELSE Consumed(entry)
         /\ UNCHANGED <<archives, fpc, loading>>

\* process_single, an archive file: process_archive(path).
process_single_archive(entry, path, outcome) ==
  /\ archives' = outcome.archives
  /\ fpc' = outcome.fpc
  /\ loading' = outcome.loading
  /\ stack' = IF outcome.fpc = "scan" THEN Consumed(entry) ELSE stack
  /\ call' = Call("process_archive", path, None,
                  archive_position(archives, canonicalize(path)))
  /\ UNCHANGED files

\* process_single, a file.
process_single_file(entry, path) ==
  IF entry.ext # None
     /\ (starts_with(entry.ext[1], <<"d", "b">>)
         \/ starts_with(entry.ext[1], <<"x", "d", "b">>))
    THEN process_single_archive(
           entry, path,
           process_archive(paths, images, archives, canonicalize(path)))
    ELSE /\ files' = register(files, path, None, entry.size, entry.size, 0)
         /\ call' = Call("register", path, None, first_existing(files, path))
         /\ stack' = Consumed(entry)
         /\ UNCHANGED <<archives, fpc, loading>>

process_single(entry, path, recurse) ==
  IF is_hidden(entry) THEN recurse_continue(entry)
  ELSE IF entry.kind = "dir" THEN process_single_dir(entry, path, recurse)
  ELSE process_single_file(entry, path)

\* A variant of initialize_recurse that stores the line's FSPath before the
\* walk.
initialize_recurse_early(pths, id, path) ==
  IF recurse_enters(path.path)
    THEN /\ stack' = <<Frame(path.path, path.recurse)>>
         /\ cur' = Some([id |-> id, path |-> path])
         /\ paths' = insert(pths, id, path)
         /\ fpc' = "scan"
         /\ UNCHANGED line_idx
    ELSE /\ paths' = insert(pths, id, path)
         /\ line_idx' = line_idx + 1
         /\ UNCHANGED <<stack, cur, fpc>>

\* initialize, from FSPath::new on: recurse(path.path(), path.recurse()),
\* then paths.insert(id, path) once the walk is over.
initialize_recurse(pths, id, path) ==
  IF recurse_enters(path.path)
    THEN /\ stack' = <<Frame(path.path, path.recurse)>>
         /\ cur' = Some([id |-> id, path |-> path])
         /\ paths' = pths
         /\ fpc' = "scan"
         /\ UNCHANGED line_idx
    ELSE /\ paths' = insert(pths, id, path)
         /\ line_idx' = line_idx + 1
         /\ UNCHANGED <<stack, cur, fpc>>

\* initialize, from the lookup of root on; pths holds $fs_root$ when the line
\* names it.
initialize_root(pths, id, values) ==
  initialize_recurse(
    pths, id,
    FSPath(IF values[3] \in DOMAIN pths THEN pths[values[3]].path ELSE values[3],
           IF Len(values) >= 4 THEN Some(values[4]) ELSE None,
           is_bool_true(values[1]), is_bool_true(values[2])))

\* initialize, a line that is no comment.
initialize_values(id, values) ==
  IF Len(values) < 3
    THEN /\ fpc' = "failed"
         /\ UNCHANGED <<paths, line_idx, stack, cur>>
    ELSE initialize_root(
           IF values[3] \notin DOMAIN paths /\ values[3] = <<FS_ROOT>>
             THEN insert(paths, <<FS_ROOT>>, FSPath(fs_root, None, FALSE, FALSE))
             ELSE paths,
           id, values)

\* One pass of initialize's loop over the lines, up to the walk of the
\* line's directory.
initialize_line ==
  /\ fpc = "init"
  /\ line_idx <= Len(fs_ltx)
  /\ IF fs_ltx[line_idx].comment
       THEN /\ line_idx' = line_idx + 1
            /\ UNCHANGED <<paths, fpc, stack, cur>>
       ELSE IF ~fs_ltx[line_idx].has_eq
         THEN /\ fpc' = "panicked"
              /\ UNCHANGED <<paths, line_idx, stack, cur>>
         ELSE initialize_values(fs_ltx[line_idx].id, fs_ltx[line_idx].values)
  /\ call' = NoCall
  /\ UNCHANGED <<fs_root, files, archives, fs_ltx, images, loading, read_result>>
  /\ UNCHANGED <<lzhVars, testVars, chunkVars, treeVars, bitVars>>

\* One pass of recurse's loop over the entries of a directory.
recurse_entry ==
  /\ fpc = "scan"
  /\ loading = None
  /\ stack # <<>>
  /\ \E entry \in stack[1].dir :
       IF ignore_name(entry.name) THEN recurse_continue(entry)
       ELSE process_single(entry, push(stack[1].path, <<entry.name>>),
                           stack[1].recurse)
  /\ UNCHANGED <<fs_root, paths, fs_ltx, images, line_idx, cur, read_result>>
  /\ UNCHANGED <<lzhVars, testVars, chunkVars, treeVars, bitVars>>

\* load_archive's closure on a buffer too short for its fields: below three
\* u32 a read_u32 returns Err; from there to below four u32 the subtraction
\* buffer_size - 4 * size_of::<u32>() overflows, which panics at once or, in
\* a build that wraps, in vec![0; name_length].
load_entry_short(buffer) ==
  /\ fpc' = IF buffer.size < 12 THEN "failed" ELSE "panicked"
  /\ loading' = None
  /\ call' = NoCall
  /\ UNCHANGED files

\* load_archive's closure on a buffer that holds its fields: the file is
\* registered under the entry point, owned by the archive.
load_entry_register(buffer) ==
  /\ files' = register(files, push(loading[1].entry_point, buffer.name),
                       Some(loading[1].archive_index),
                       buffer.size_real, buffer.size_compressed, buffer.ptr)
  /\ call' = Call("register", push(loading[1].entry_point, buffer.name),
                  Some(loading[1].archive_index),
                  first_existing(files, push(loading[1].entry_point, buffer.name)))
  /\ loading' = IF Len(loading[1].buffers) = 1 THEN None
                ELSE Some([loading[1] EXCEPT !.buffers = Tail(@)])
  /\ UNCHANGED fpc

\* One buffer of load_archive's chunk.
load_entry ==
  /\ fpc = "scan"
  /\ loading # None
  /\ IF loading[1].buffers[1].size < 16
       THEN load_entry_short(loading[1].buffers[1])
       ELSE load_entry_register(loading[1].buffers[1])
  /\ UNCHANGED <<fs_root, paths, archives, fs_ltx, images, line_idx, cur,
                 stack, read_result>>
  /\ UNCHANGED <<lzhVars, testVars, chunkVars, treeVars, bitVars>>

\* The end of a call of recurse: the directory itself is registered; at the
\* end of the outermost call initialize stores the line's FSPath.
recurse_end ==
  /\ fpc = "scan"
  /\ loading = None
  /\ stack # <<>>
  /\ stack[1].dir = {}
  /\ files' = register(files, stack[1].path, None, 0, 0, 0)
  /\ call' = Call("register", stack[1].path, None,
                  first_existing(files, stack[1].path))
  /\ stack' = Tail(stack)
  /\ IF Len(stack) = 1
       THEN /\ paths' = insert(paths, cur[1].id, cur[1].path)
            /\ line_idx' = line_idx + 1
            /\ fpc' = "init"
            /\ cur' = None
       ELSE UNCHANGED <<paths, line_idx, fpc, cur>>
  /\ UNCHANGED <<fs_root, archives, fs_ltx, images, loading, read_result>>
  /\ UNCHANGED <<lzhVars, testVars, chunkVars, treeVars, bitVars>>

\* initialize returns Ok after the last line.
initialize_done ==
  /\ fpc = "init"
  /\ line_idx > Len(fs_ltx)
  /\ fpc' = "ready"
  /\ call' = NoCall
  /\ UNCHANGED <<fs_root, paths, files, archives, fs_ltx, images, line_idx, cur,
                 stack, loading, read_result>>
  /\ UNCHANGED <<lzhVars, testVars, chunkVars, treeVars, bitVars>>

\* Paths read that no scan registers.
ReadMisses == {<<"/", "g", "data", "none.ltx">>}

\* Filesystem::read_to_string(path) on the initialized Filesystem.
read_to_string ==
  /\ fpc = "ready"
  /\ \E path \in DOMAIN files \cup ReadMisses :
       /\ read_result' = Some(fs_read_to_string(files, archives, path))
       /\ call' = Call("read_to_string", path, None, -1)
  /\ UNCHANGED <<fs_root, paths, files, archives, fs_ltx, images, fpc, line_idx,
                 cur, stack, loading>>
  /\ UNCHANGED <<lzhVars, testVars, chunkVars, treeVars, bitVars>>

(***************************************************************************)
(* The configurations and archive contents the Filesystem is built from     *)
(***************************************************************************)
MaxLines == 2

GameDataLine ==
  Line(FALSE, TRUE, <<"$game_data$">>, <<"true", "false", <<FS_ROOT>>, <<"data">>>>)
ArchivesLine ==
  Line(FALSE, TRUE, <<"$arch_dir$">>, <<"true", "false", <<FS_ROOT>>, <<"arc">>>>)
TexturesLine ==
  Line(FALSE, TRUE, <<"$game_textures$">>,
       <<"true", "true", <<"$game_data$">>, <<"tex">>>>)
AppRootLine ==
  Line(FALSE, TRUE, <<"$app_root$">>, <<"false", "false", <<FS_ROOT>>>>)
CommentLine == Line(TRUE, FALSE, <<>>, <<>>)
ShortLine == Line(FALSE, TRUE, <<"$logs$">>, <<"true">>)
NoEqLine == Line(FALSE, FALSE, <<>>, <<>>)

Lines == {GameDataLine, ArchivesLine, TexturesLine, AppRootLine, CommentLine,
          ShortLine, NoEqLine}

\* The configuration files: up to MaxLines different lines in any order.
Configs ==
  {c \in SeqsUpTo(Lines, MaxLines) :
     c # <<>> /\ \A i, j \in 1..Len(c) : i # j => c[i] # c[j]}

\* A sub-record of chunk 1: size is its u16 len, truncated tells that fewer
\* than len bytes follow it in the chunk; a buffer of 16 bytes or more holds
\* the fields of a file of the archive, the name taking size - 16 bytes.
Buffer(size, name, size_real, size_compressed, ptr) ==
  [size |-> size, truncated |-> FALSE, name |-> name, size_real |-> size_real,
   size_compressed |-> size_compressed, ptr |-> ptr]

TexEntryPoint == <<"$game_data$", "\\", "tex">>
ModsEntryPoint == <<"$game_data$", "\\", "mods">>

Header(compressed, auto_load, entry_point) ==
  Chunk(ARCHIVE_HEADER_CHUNK_ID, compressed, Ini(auto_load, entry_point))

Sky == Buffer(23, <<"sky.dds">>, 10, 5, 16)
Deep == Buffer(28, <<"sub", "deep.dds">>, 4, 4, 8)
Big == Buffer(23, <<"big.dds">>, 6, 16, 40)
Sky2 == Buffer(23, <<"sky.dds">>, 9, 9, 4)
\* Buffers too short for the fields: two u32, and three u32 with two bytes.
Short8 == Buffer(8, <<>>, 10, 5, 0)
Short14 == Buffer(14, <<>>, 10, 5, 0)
\* A sub-record cut off by the end of the chunk.
CutDeep == [Deep EXCEPT !.truncated = TRUE]

\* The contents of a.db0 (48 bytes).
ImagesA ==
  {<<Header(TRUE, Some("on"), Some(TexEntryPoint)), Chunk(1, TRUE, <<Sky>>)>>,
   <<Chunk(1, FALSE, <<Deep>>), Header(FALSE, Some("1"), Some(ModsEntryPoint))>>,
   <<Header(FALSE, Some("yes"), Some(TexEntryPoint)), Chunk(1, TRUE, <<Sky, Big>>)>>,
   <<Header(FALSE, Some("off"), Some(TexEntryPoint)), Chunk(1, TRUE, <<Sky>>)>>,
   <<Header(FALSE, None, Some(TexEntryPoint)), Chunk(1, TRUE, <<Sky>>)>>,
   <<Header(FALSE, Some("true"), Some(<<"gamedata">>)), Chunk(1, TRUE, <<Sky>>)>>,
   <<Header(FALSE, Some("true"), Some(<<"textures">>)), Chunk(1, TRUE, <<Sky>>)>>,
   <<Header(FALSE, Some("true"), None), Chunk(1, TRUE, <<Sky>>)>>,
   <<Header(FALSE, Some("on"), Some(<<"$mods$", "\\", "tex">>)), Chunk(1, TRUE, <<Sky>>)>>,
   <<Header(FALSE, Some("on"), Some(TexEntryPoint))>>,
   <<Chunk(1, TRUE, <<Sky>>)>>,
   <<Header(FALSE, Some("on"), Some(TexEntryPoint)), Chunk(1, FALSE, <<>>)>>,
   <<Header(FALSE, Some("on"), Some(TexEntryPoint)), Chunk(1, FALSE, <<Short8, Sky>>)>>,
   <<Header(FALSE, Some("on"), Some(TexEntryPoint)), Chunk(1, TRUE, <<Sky, Short14, Big>>)>>,
   <<Header(FALSE, Some("on"), Some(ModsEntryPoint)), Chunk(1, TRUE, <<Deep, Sky, CutDeep>>)>>,
   <<Header(FALSE, Some("on"), Some(<<"$arch_dir$", "\\", "tex">>)), Chunk(1, TRUE, <<Sky>>)>>,
   <<Header(FALSE, Some("on"), Some(<<FS_ROOT, "\\", "arc">>)), Chunk(1, TRUE, <<Sky>>)>>}

\* The contents of b.xdb (32 bytes).
ImagesB ==
  {<<Header(TRUE, Some("on"), Some(TexEntryPoint)), Chunk(1, TRUE, <<Sky2>>)>>,
   <<Header(TRUE, Some("0"), Some(TexEntryPoint)), Chunk(1, TRUE, <<Sky2>>)>>,
   <<Header(TRUE, Some("True"), Some(TexEntryPoint)), Chunk(1, TRUE, <<Sky2>>)>>}

\* Filesystem::with_fs_ltx, up to the call of initialize.
FilesystemNew(config, a, b) ==
  /\ fs_root = FsRootDir
  /\ paths = EmptyMap
  /\ files = EmptyMap
  /\ archives = <<>>
  /\ fs_ltx = config
  /\ images = insert(insert(EmptyMap, push(ArcDir, <<"a.db0">>), a),
                     push(ArcDir, <<"b.xdb">>), b)
  /\ fpc = "init"
  /\ line_idx = 1
  /\ cur = None
  /\ stack = <<>>
  /\ loading = None
  /\ call = NoCall
  /\ read_result = None

Init ==
  /\ \E config \in Configs, a \in ImagesA, b \in ImagesB : FilesystemNew(config, a, b)
  /\ DecoderIdle
  /\ ChunkIdle
  /\ TreeIdle
  /\ BitsIdle

Next ==
  \/ initialize_line
  \/ recurse_entry
  \/ load_entry
  \/ recurse_end
  \/ initialize_done
  \/ read_to_string

Spec == Init /\ [][Next]_vars

(***************************************************************************)
(* lzhuf: the encoder the decoder's streams come from                       *)
(*                                                                          *)
(* The repository holds the decoder only. The encoder below is the inverse  *)
(* the format fixes: the same adaptive Huffman tree (start_huff, update),   *)
(* the position code of the tables P_LEN and P_CODE that mod.rs keeps in a  *)
(* comment, bits packed from the most significant end, zero padding. Which  *)
(* back-references an encoder finds is left open: every way of cutting the  *)
(* plain bytes into literals and back-references into the window is        *)
(* encoded.                                                                 *)
(***************************************************************************)

\* The two tables as mod.rs names them: P_LEN holds the code of the upper six
\* bits of a position, left-aligned in a byte, and P_CODE its length in bits.
P_LEN ==
  <<0, 32, 48, 64, 80, 88, 96, 104, 112, 120, 128, 136, 144, 148, 152, 156,
    160, 164, 168, 172, 176, 180, 184, 188, 192, 194, 196, 198, 200, 202, 204, 206,
    208, 210, 212, 214, 216, 218, 220, 222, 224, 226, 228, 230, 232, 234, 236, 238,
    240, 241, 242, 243, 244, 245, 246, 247, 248, 249, 250, 251, 252, 253, 254, 255>>

P_CODE ==
  <<3, 4, 4, 4, 5, 5, 5, 5, 5, 5, 5, 5, 6, 6, 6, 6,
    6, 6, 6, 6, 6, 6, 6, 6, 7, 7, 7, 7, 7, 7, 7, 7,
    7, 7, 7, 7, 7, 7, 7, 7, 7, 7, 7, 7, 7, 7, 7, 7,
    8, 8, 8, 8, 8, 8, 8, 8, 8, 8, 8, 8, 8, 8, 8, 8>>

\* A symbol of the stream: a literal byte (len = 0, v the byte) or a
\* back-reference (len in THRESHOLD + 1 .. F, v the position).
Literal(c) == [len |-> 0, v |-> c]
Match(pos, len) == [len |-> len, v |-> pos]

\* The code of a symbol in the alphabet of N_CHAR: the inverse of
\* j = c - 255 + THRESHOLD.
symbol_code(s) == IF s.len = 0 THEN s.v ELSE s.len + 255 - THRESHOLD

\* The n low bits of x, most significant first.
RECURSIVE BitsOf(_, _)
BitsOf(x, n) == IF n = 0 THEN <<>> ELSE Append(BitsOf(x \div 2, n - 1), x % 2)

\* The bits of leaf c from the root down: the parity of each node on the
\* way up from the leaf is the bit the decoder adds to son[..] to reach it.
RECURSIVE encode_char_walk(_, _, _)
encode_char_walk(d, k, bits) ==
  IF k = R THEN bits ELSE encode_char_walk(d, d.parent[k], <<k % 2>> \o bits)

encode_char(d, c) == encode_char_walk(d, d.parent[c + T], <<>>)

\* The code of the upper six bits, then the lower six bits as they are.
encode_position(pos) ==
  SubSeq(BitsOf(P_LEN[(pos \div 64) + 1], 8), 1, P_CODE[(pos \div 64) + 1])
    \o BitsOf(pos % 64, 6)

encode_symbol(d, s) ==
  encode_char(d, symbol_code(s))
    \o (IF s.len = 0 THEN <<>> ELSE encode_position(s.v))

\* The bits of the symbols from the i-th on, the tree updated after each.
RECURSIVE encode_symbols(_, _, _, _)
encode_symbols(syms, i, d, bits) ==
  IF i > Len(syms) THEN bits
  ELSE encode_symbols(syms, i + 1, update(d, symbol_code(syms[i])),
                      bits \o encode_symbol(d, syms[i]))

\* The bits as bytes, the last one padded with zero bits.
RECURSIVE pack(_)
pack(bits) ==
  IF bits = <<>> THEN <<>>
  ELSE IF Len(bits) < 8 THEN pack(Append(bits, 0))
  ELSE <<bits[1] * 128 + bits[2] * 64 + bits[3] * 32 + bits[4] * 16
           + bits[5] * 8 + bits[6] * 4 + bits[7] * 2 + bits[8]>>
         \o pack(SubSeq(bits, 9, Len(bits)))

\* The stream of plain cut into syms: the length, then the packed bits.
encode(plain, syms) ==
  u32_le(Len(plain))
    \o (IF plain = <<>> THEN <<>>
        ELSE pack(encode_symbols(
                    syms, 1,
                    start_huff([rd_pos |-> 0, get_buf |-> U32(0, 0), get_len |-> 0,
                                freq |-> NewFreq, son |-> NewSon, parent |-> NewParent]),
                    <<>>)))

\* The byte j places after the start of plain in the encoder's window; the
\* N - F places before the start hold spaces.
window_at(plain, j) == IF j < 0 THEN 32 ELSE plain[j + 1]

\* A back-reference of len bytes at position pos, once k bytes are encoded,
\* repeats bytes the window holds.
match_valid(plain, k, pos, len) ==
  /\ k + len <= Len(plain)
  /\ k - pos - 1 >= 0 - (N - F)
  /\ \A t \in 0..(len - 1) : plain[k + t + 1] = window_at(plain, k - pos - 1 + t)

\* Positions tried for back-references: the nearest bytes, both sides of a
\* change of the upper six bits, and the far end of the window.
Positions == {0, 1, 63, 64, N - F - 1, N - F}

\* Every cut of plain from its k-th byte on into literals and back-references.
RECURSIVE Parses(_, _)
Parses(plain, k) ==
  IF k >= Len(plain) THEN {<<>>}
  ELSE {<<Literal(plain[k + 1])>> \o rest : rest \in Parses(plain, k + 1)}
       \cup UNION {{<<Match(m[1], m[2])>> \o rest : rest \in Parses(plain, k + m[2])} :
                     m \in {x \in Positions \X ((THRESHOLD + 1)..F) :
                              match_valid(plain, k, x[1], x[2])}}

MaxPlainLen == 4
PlainBytes == {32, 65}

\* Runs that take a back-reference of the greatest length F: spaces copied
\* from the far end of the window, and a byte repeated from itself.
LongRuns ==
  {[plain |-> [i \in 1..F |-> 32], syms |-> <<Match(N - F - 1, F)>>],
   [plain |-> [i \in 1..(F + 1) |-> 65], syms |-> <<Literal(65), Match(0, F)>>]}

\* test_decode: the decoder is given the stream of a plain sequence.
InitRT ==
  /\ \E t \in LongRuns
          \cup UNION {{[plain |-> p, syms |-> s] : s \in Parses(p, 0)} :
                        p \in SeqsUpTo(PlainBytes, MaxPlainLen)} :
       /\ DecoderNew(encode(t.plain, t.syms))
       /\ test_data = t.plain
       /\ test_symbols = t.syms
  /\ FsIdle
  /\ ChunkIdle
  /\ TreeIdle
  /\ BitsIdle

SpecRT == InitRT /\ [][NextLzh]_vars

\* decode runs to its return: a loop pass that can be taken is taken.
SpecLzhFair == SpecLzh /\ WF_vars(NextLzh)

(***************************************************************************)
(* filesystem::archive: open_chunk over the bytes of a container           *)
(***************************************************************************)

\* const ARCHIVE_COMPRESS_FLAG: u32 = 1 << 31
ARCHIVE_COMPRESS_FLAG == U32(32768, 0)

\* a & !b on u32 words.
U32AndNot(a, b) == U32(BitAnd(a.hi, 65535 - b.hi), BitAnd(a.lo, 65535 - b.lo))

\* a & b on u32 words.
U32And(a, b) == U32(BitAnd(a.hi, b.hi), BitAnd(a.lo, b.lo))

\* reader.read_u32::<LittleEndian>() of the four bytes after pos, as a word.
read_u32_word(bytes, pos) ==
  U32(bytes[pos + 3] + 256 * bytes[pos + 4], bytes[pos + 1] + 256 * bytes[pos + 2])

\* size as usize / size as i64: the word as a number (below 2^31 in every
\* container of the model).
as_usize(w) == w.hi * 65536 + w.lo

\* The locals ty and size of the pass that starts at chunk_pos.
chunk_ty == read_u32_word(container, chunk_pos)
chunk_size == as_usize(read_u32_word(container, chunk_pos + 4))

\* (ty & !ARCHIVE_COMPRESS_FLAG) == id
chunk_matches == U32AndNot(chunk_ty, ARCHIVE_COMPRESS_FLAG) = chunk_id

\* (ty & ARCHIVE_COMPRESS_FLAG) > 0
chunk_compressed == U32And(chunk_ty, ARCHIVE_COMPRESS_FLAG) # U32(0, 0)

\* Both read_u32 of a pass succeed: eight bytes are left at chunk_pos.
header_readable == chunk_pos + 8 <= Len(container)

\* Where a failed read_exact leaves the reader: what was left is consumed.
after_failed_read == IF chunk_pos < Len(container) THEN Len(container) ELSE chunk_pos

\* A variant of open_chunk_eof that reports an absent chunk.
open_chunk_eof_none ==
  /\ cpc = "loop"
  /\ ~header_readable
  /\ cpc' = "some"
  /\ chunk_pos' = after_failed_read
  /\ UNCHANGED <<container, chunk_id, source_data, chunk_result, records>>
  /\ UNCHANGED <<lzhVars, testVars, fsVars, treeVars, bitVars>>

\* read_u32 fails at the end of the file: the Err is returned by `?`.
open_chunk_eof ==
  /\ cpc = "loop"
  /\ ~header_readable
  /\ cpc' = "err"
  /\ chunk_pos' = after_failed_read
  /\ UNCHANGED <<container, chunk_id, source_data, chunk_result, records>>
  /\ UNCHANGED <<lzhVars, testVars, fsVars, treeVars, bitVars>>

\* A variant of open_chunk_skip that steps over the header only.
open_chunk_skip_header ==
  /\ cpc = "loop"
  /\ header_readable
  /\ ~chunk_matches
  /\ chunk_pos' = chunk_pos + 8
  /\ UNCHANGED <<container, chunk_id, cpc, source_data, chunk_result, records>>
  /\ UNCHANGED <<lzhVars, testVars, fsVars, treeVars, bitVars>>

\* The else branch: reader.seek_relative(size as i64), also past the end.
open_chunk_skip ==
  /\ cpc = "loop"
  /\ header_readable
  /\ ~chunk_matches
  /\ chunk_pos' = chunk_pos + 8 + chunk_size
  /\ UNCHANGED <<container, chunk_id, cpc, source_data, chunk_result, records>>
  /\ UNCHANGED <<lzhVars, testVars, fsVars, treeVars, bitVars>>

\* The matching record's size runs past the end: read_exact fails.
open_chunk_short ==
  /\ cpc = "loop"
  /\ header_readable
  /\ chunk_matches
  /\ chunk_pos + 8 + chunk_size > Len(container)
  /\ cpc' = "err"
  /\ chunk_pos' = Len(container)
  /\ UNCHANGED <<container, chunk_id, source_data, chunk_result, records>>
  /\ UNCHANGED <<lzhVars, testVars, fsVars, treeVars, bitVars>>

\* The matching record without the flag: Ok(Some(source_data)).
open_chunk_plain ==
  /\ cpc = "loop"
  /\ header_readable
  /\ chunk_matches
  /\ chunk_pos + 8 + chunk_size <= Len(container)
  /\ ~chunk_compressed
  /\ source_data' = SubSeq(container, chunk_pos + 9, chunk_pos + 8 + chunk_size)
  /\ chunk_result' = source_data'
  /\ chunk_pos' = chunk_pos + 8 + chunk_size
  /\ cpc' = "some"
  /\ UNCHANGED <<container, chunk_id, records>>
  /\ UNCHANGED <<lzhVars, testVars, fsVars, treeVars, bitVars>>

\* lzhuf::decompress(reader): Decoder::new(reader), decode still to run.
decompress(inp) ==
  /\ reader' = inp
  /\ rd_pos' = 0
  /\ output' = <<>>
  /\ text_buf' = NewTextBuf
  /\ freq' = NewFreq
  /\ parent' = NewParent
  /\ son' = NewSon
  /\ tim_size' = 0
  /\ get_buf' = U32(0, 0)
  /\ get_len' = 0
  /\ text_size' = 0
  /\ r' = 0
  /\ count' = 0
  /\ dpc' = "new"

\* A variant of open_chunk_compressed that returns the bytes as stored.
open_chunk_compressed_raw ==
  /\ cpc = "loop"
  /\ header_readable
  /\ chunk_matches
  /\ chunk_pos + 8 + chunk_size <= Len(container)
  /\ chunk_compressed
  /\ source_data' = SubSeq(container, chunk_pos + 9, chunk_pos + 8 + chunk_size)
  /\ chunk_result' = source_data'
  /\ chunk_pos' = chunk_pos + 8 + chunk_size
  /\ cpc' = "some"
  /\ UNCHANGED <<container, chunk_id, records>>
  /\ UNCHANGED <<lzhVars, testVars, fsVars, treeVars, bitVars>>

\* The matching record with the flag: source_data goes to lzhuf::decompress.
open_chunk_compressed ==
  /\ cpc = "loop"
  /\ header_readable
  /\ chunk_matches
  /\ chunk_pos + 8 + chunk_size <= Len(container)
  /\ chunk_compressed
  /\ source_data' = SubSeq(container, chunk_pos + 9, chunk_pos + 8 + chunk_size)
  /\ chunk_pos' = chunk_pos + 8 + chunk_size
  /\ cpc' = "decompress"
  /\ decompress(source_data')
  /\ UNCHANGED <<container, chunk_id, chunk_result, records>>
  /\ UNCHANGED <<testVars, fsVars, treeVars, bitVars>>

\* decode has returned: Ok(Some(..)) of its buffer, or its Err by `?`.
open_chunk_decompressed ==
  /\ cpc = "decompress"
  /\ dpc \in {"done", "err"}
  /\ cpc' = IF dpc = "done" THEN "some" ELSE "err"
  /\ chunk_result' = IF dpc = "done" THEN output ELSE chunk_result
  /\ UNCHANGED <<container, chunk_id, chunk_pos, source_data, records>>
  /\ UNCHANGED <<lzhVars, testVars, fsVars, treeVars, bitVars>>

(***************************************************************************)
(* Containers open_chunk is run on                                          *)
(***************************************************************************)
MaxRecords == 3

\* A record of a container: {u32 type; u32 size; size bytes}. id is the type
\* without the flag, flagged the flag, payload the stored bytes, plain the
\* bytes the payload stands for, honest whether a flagged payload is the
\* encoder's stream of plain.
Record(id, flagged, payload, plain, honest) ==
  [id |-> id, flagged |-> flagged, payload |-> payload, plain |-> plain,
   honest |-> honest]

Stored(id, payload) == Record(id, FALSE, payload, payload, TRUE)
Packed(id, plain, syms) == Record(id, TRUE, encode(plain, syms), plain, TRUE)
Garbled(id, payload) == Record(id, TRUE, payload, <<>>, FALSE)

\* The four bytes of a word, least significant first.
word_le(w) == <<w.lo % 256, w.lo \div 256, w.hi % 256, w.hi \div 256>>

\* The bytes of a record as they stand in the file.
RecordBytes(rec) ==
  word_le(U32(rec.id.hi + (IF rec.flagged THEN ARCHIVE_COMPRESS_FLAG.hi ELSE 0),
              rec.id.lo))
    \o u32_le(Len(rec.payload)) \o rec.payload

RECURSIVE ContainerBytes(_)
ContainerBytes(recs) ==
  IF recs = <<>> THEN <<>>
  ELSE RecordBytes(Head(recs)) \o ContainerBytes(Tail(recs))

\* Where the k-th record starts and where its payload ends.
RecordStart(recs, k) == Len(ContainerBytes(SubSeq(recs, 1, k - 1)))
RecordEnd(recs, k) == Len(ContainerBytes(SubSeq(recs, 1, k)))

\* The ids asked for and stored: 1, the header's id, the greatest id.
IdOne == U32(0, 1)
IdHeader == U32(0, ARCHIVE_HEADER_CHUNK_ID)
IdMax == U32(32767, 65535)

\* An id with the flag's bit set: the type word of a flagged record of id 1.
IdFlagged == U32(32768, 1)

\* Payloads: of size 0, the four bytes DE AD BE EF, and the bytes of a whole
\* record of id 1, which a scan that looked into payloads would find.
DeadBeef == <<222, 173, 190, 239>>
Decoy == RecordBytes(Stored(IdOne, <<1, 2>>))

ChunkRecords ==
  {Stored(IdOne, <<>>), Stored(IdOne, DeadBeef), Stored(IdHeader, Decoy),
   Stored(IdMax, <<7>>),
   Packed(IdOne, <<65, 32>>, <<Literal(65), Literal(32)>>),
   Packed(IdOne, <<32, 32, 32, 65>>, <<Match(0, 3), Literal(65)>>),
   Packed(IdHeader, <<>>, <<>>),
   Packed(IdMax, DeadBeef, <<Literal(222), Literal(173), Literal(190), Literal(239)>>),
   Garbled(IdOne, <<1, 0>>)}

\* Bytes missing at the end of the file: none, the last byte, and enough to
\* cut into the last record's header.
Cuts == {0, 1, 9}

Truncated(bytes, cut) ==
  SubSeq(bytes, 1, IF cut > Len(bytes) THEN 0 ELSE Len(bytes) - cut)

\* open_chunk(&mut reader, id) on a reader just opened.
OpenChunk(recs, cut, id) ==
  /\ records = recs
  /\ container = Truncated(ContainerBytes(recs), cut)
  /\ chunk_id = id
  /\ chunk_pos = 0
  /\ cpc = "loop"
  /\ source_data = <<>>
  /\ chunk_result = <<>>

InitChunk ==
  /\ \E recs \in SeqsUpTo(ChunkRecords, MaxRecords), cut \in Cuts,
        id \in {IdOne, IdHeader, IdMax, IdFlagged} :
       OpenChunk(recs, cut, id)
  /\ DecoderIdle
  /\ FsIdle
  /\ TreeIdle
  /\ BitsIdle

NextChunk ==
  \/ open_chunk_eof
  \/ open_chunk_skip
  \/ open_chunk_short
  \/ open_chunk_plain
  \/ open_chunk_compressed
  \/ open_chunk_decompressed
  \/ decode_begin
  \/ decode_symbol
  \/ decode_end

SpecChunk == InitChunk /\ [][NextChunk]_vars

\* The records of the runs that are followed to their end: the stored ones
\* and one flagged record.
ScanRecords ==
  {Stored(IdOne, <<>>), Stored(IdHeader, Decoy), Stored(IdMax, <<7>>),
   Packed(IdOne, <<65, 32>>, <<Literal(65), Literal(32)>>)}

InitScan ==
  /\ \E recs \in SeqsUpTo(ScanRecords, MaxRecords), cut \in Cuts,
        id \in {IdOne, IdHeader, IdMax, IdFlagged} :
       OpenChunk(recs, cut, id)
  /\ DecoderIdle
  /\ FsIdle
  /\ TreeIdle
  /\ BitsIdle

\* open_chunk runs to its return: a step that can be taken is taken.
SpecScanFair == InitScan /\ [][NextChunk]_vars /\ WF_vars(NextChunk)

(***************************************************************************)
(* lzhuf: the tree of the decoder alone                                     *)
(*                                                                          *)
(* update and reconst read and write freq, son and parent only, and update  *)
(* is called once per symbol with the leaf decode_char came to. The runs    *)
(* below follow the three arrays from start_huff on through the updates of  *)
(* a sequence of symbols, far enough for reconst to run (freq[R] starts at  *)
(* N_CHAR and gains one per update); the window, the reservoir and the      *)
(* output play no part and stay as they are. A run is also entered at the   *)
(* tree its symbols give after WarmUpdates updates, a state the run from    *)
(* start_huff passes through, so that the states around reconst lie a few   *)
(* steps from an initial state.                                             *)
(***************************************************************************)
MaxUpdates == 16400
WarmUpdates == 16000

\* The symbol of the n-th call of update (from 0): one symbol throughout,
\* every symbol in turn, or a spread of literals mixed with match lengths.
Sym(name, n) ==
  IF name = "single" THEN 32
  ELSE IF name = "round" THEN n % N_CHAR
  ELSE IF n % 5 = 0 THEN 256 + ((n \div 5) % (N_CHAR - 256))
  ELSE 32 + ((n * n) % 97)

Schedules == {"single", "round", "mixed"}

\* The symbols of the runs that take any of them at each call, and the
\* number of calls of such a run.
FreeSymbols == {0, 32, 255, 256, N_CHAR - 1}
MaxFree == 4

\* The tree after the first n calls of update of a sequence of symbols.
tree_after(name, n) ==
  LET played(d, i) == update(d, Sym(name, i))
  IN For(played,
         start_huff([rd_pos |-> 0, get_buf |-> U32(0, 0), get_len |-> 0,
                     freq |-> NewFreq, son |-> NewSon, parent |-> NewParent]),
         0, n)

\* Decoder::new and start_huff, as decode calls them before its loop, and
\* the updates before the point of entry.
InitTree ==
  /\ schedule \in Schedules \cup {"free"}
  /\ updates \in (IF schedule = "free" THEN {0} ELSE {0, WarmUpdates})
  /\ reconsts = 0
  /\ \E d \in {tree_after(schedule, updates)} :
       /\ freq = d.freq
       /\ son = d.son
       /\ parent = d.parent
  /\ reader = <<>>
  /\ rd_pos = 0
  /\ output = <<>>
  /\ text_buf = <<>>
  /\ tim_size = 0
  /\ get_buf = U32(0, 0)
  /\ get_len = 0
  /\ text_size = 0
  /\ r = 0
  /\ count = 0
  /\ dpc = "none"
  /\ test_data = <<>>
  /\ test_symbols = <<>>
  /\ FsIdle
  /\ ChunkIdle
  /\ BitsIdle

\* update, its first statement when freq[R] == MAX_FREQ: reconst.
tree_reconst ==
  /\ schedule # "none"
  /\ updates < MaxUpdates
  /\ freq[R] = MAX_FREQ
  /\ \E d \in {reconst(DecoderState)} : SetDecoderState(d)
  /\ reconsts' = reconsts + 1
  /\ UNCHANGED <<reader, output, text_buf, tim_size, text_size, r, count, dpc>>
  /\ UNCHANGED <<schedule, updates>>
  /\ UNCHANGED <<testVars, fsVars, chunkVars, bitVars>>

\* update(c), from c = parent[c + T] on, for the symbol decode_char came to.
tree_update ==
  /\ schedule \in Schedules
  /\ updates < MaxUpdates
  /\ freq[R] # MAX_FREQ
  /\ \E d \in {update_leaf(DecoderState, Sym(schedule, updates))} : SetDecoderState(d)
  /\ updates' = updates + 1
  /\ UNCHANGED <<reader, output, text_buf, tim_size, text_size, r, count, dpc>>
  /\ UNCHANGED <<schedule, reconsts>>
  /\ UNCHANGED <<testVars, fsVars, chunkVars, bitVars>>

\* update(c) for any of the symbols, from the tree of start_huff on.
tree_update_free ==
  /\ schedule = "free"
  /\ updates < MaxFree
  /\ freq[R] # MAX_FREQ
  /\ \E c \in FreeSymbols :
       \E d \in {update_leaf(DecoderState, c)} : SetDecoderState(d)
  /\ updates' = updates + 1
  /\ UNCHANGED <<reader, output, text_buf, tim_size, text_size, r, count, dpc>>
  /\ UNCHANGED <<schedule, reconsts>>
  /\ UNCHANGED <<testVars, fsVars, chunkVars, bitVars>>

NextTree == tree_reconst \/ tree_update \/ tree_update_free

SpecTree == InitTree /\ [][NextTree]_vars
(***************************************************************************)
(* lzhuf: the bit reservoir alone                                           *)
(*                                                                          *)
(* get_bit and get_byte read and write reader, get_buf and get_len only.    *)
(* The runs below start where decode has read the size prefix and call the  *)
(* two in any order; delivered keeps, for each call, the number of bits     *)
(* asked for and the value returned.                                        *)
(***************************************************************************)
MaxStream == 3
MaxCalls == 6

\* The bytes a stream is made of.
StreamBytes == {0, 1, 128, 165, 255}

\* The byte streams after the size prefix, of up to MaxStream bytes.
RECURSIVE Streams(_)
Streams(n) ==
  IF n = 0 THEN {<<>>}
  ELSE Streams(n - 1) \cup {Append(s, b) : s \in {x \in Streams(n - 1) : Len(x) = n - 1},
                                           b \in StreamBytes}

\* Decoder::new, read_u32 of the prefix and start_huff.
InitBits ==
  /\ \E body \in Streams(MaxStream) : reader = <<1, 0, 0, 0>> \o body
  /\ rd_pos = 4
  /\ get_buf = U32(0, 0)
  /\ get_len = 0
  /\ \E d \in {tree_after("free", 0)} :
       /\ freq = d.freq
       /\ son = d.son
       /\ parent = d.parent
  /\ output = <<>>
  /\ text_buf = <<>>
  /\ tim_size = 0
  /\ text_size = 1
  /\ r = 0
  /\ count = 0
  /\ dpc = "none"
  /\ delivered = <<>>
  /\ test_data = <<>>
  /\ test_symbols = <<>>
  /\ FsIdle
  /\ ChunkIdle
  /\ TreeIdle

\* get_bit()
bits_get_bit ==
  /\ Len(delivered) < MaxCalls
  /\ \E g \in {get_bit(reader, DecoderState)} :
       /\ SetDecoderState(g.d)
       /\ delivered' = Append(delivered, [n |-> 1, v |-> g.v])
  /\ UNCHANGED <<reader, output, text_buf, tim_size, text_size, r, count, dpc>>
  /\ UNCHANGED <<testVars, fsVars, chunkVars, treeVars>>

\* get_byte()
bits_get_byte ==
  /\ Len(delivered) < MaxCalls
  /\ \E g \in {get_byte(reader, DecoderState)} :
       /\ SetDecoderState(g.d)
       /\ delivered' = Append(delivered, [n |-> 8, v |-> g.v])
  /\ UNCHANGED <<reader, output, text_buf, tim_size, text_size, r, count, dpc>>
  /\ UNCHANGED <<testVars, fsVars, chunkVars, treeVars>>

NextBits == bits_get_bit \/ bits_get_byte

SpecBits == InitBits /\ [][NextBits]_vars

(***************************************************************************)
(* lzhuf: decode on its inputs together with the long runs of the tree      *)
(***************************************************************************)
SpecDecoder == (InitLzh \/ InitTree) /\ [][NextLzh \/ NextTree]_vars

(***************************************************************************)
(* Properties of the Filesystem                                             *)
(***************************************************************************)

\* C1: once an entry is stored under a path, a later register call for the
\* same path leaves the entry's archive id, real size, compressed size and
\* offset unchanged (first write wins).
C1_FirstWriteWins ==
  [][(call'.op = "register" /\ call'.path \in DOMAIN files)
       => /\ files'[call'.path].archive = files[call'.path].archive
          /\ files'[call'.path].size_real = files[call'.path].size_real
          /\ files'[call'.path].size_compressed = files[call'.path].size_compressed
          /\ files'[call'.path].ptr = files[call'.path].ptr]_vars

\* C2: register(p, ..) never changes the VirtualFile already stored under a
\* proper ancestor of p.
C2_AncestorsUntouched ==
  [][call'.op = "register"
       => \A a \in ProperAncestors(call'.path) :
            a \in DOMAIN files => files'[a] = files[a]]_vars

\* C3: every proper ancestor of every key of the files map is itself a key of
\* the files map.
C3_AncestorCoverage ==
  \A p \in DOMAIN files : ProperAncestors(p) \subseteq DOMAIN files

\* C3's case: a register call whose climb stopped at an ancestor that had an
\* entry, below the top of the path.
C3_Witness ==
  /\ call.op = "register"
  /\ call.stop > LastAncestorLen(call.path)
  /\ call.stop < Len(call.path) - 1

\* C7: process_archive on a path that canonicalises to the path of an Archive
\* of the list changes neither the archives list nor the files map, and the
\* list never holds two Archives of one path.
C7_ProcessArchiveIdempotent ==
  /\ [](\A i, j \in 1..Len(archives) :
          archives[i].path = archives[j].path => i = j)
  /\ [][(/\ call'.op = "process_archive"
         /\ \E i \in 1..Len(archives) :
              archives[i].path = canonicalize(call'.path))
          => /\ archives' = archives
             /\ files' = files
             /\ loading' = None
             /\ fpc' = fpc]_vars

\* C7's case: process_archive found the Archive in the list, and the first
\* call had registered files of it.
C7_Witness ==
  /\ call.op = "process_archive"
  /\ call.stop >= 0
  /\ \E p \in DOMAIN files : files[p].archive = Some(call.stop)

\* C8: each VirtualFile with archive = Some(i) has i < archives.len() and
\* ptr + size_compressed at most archives[i].size.
C8_ArchiveSliceInBounds ==
  \A p \in DOMAIN files :
    files[p].archive # None
      => /\ files[p].archive[1] < Len(archives)
         /\ files[p].ptr + files[p].size_compressed
              <= archives[files[p].archive[1] + 1].size

\* C9: each VirtualFile whose archive is none names a path that exists on
\* disk.
C9_NoArchiveMeansOnDisk ==
  \A p \in DOMAIN files : files[p].archive = None => exists(p)

\* C10: read_to_string(p) returns NotFound exactly when p is no key of the
\* files map; otherwise it reads the slice [ptr, ptr + size_compressed) of
\* the entry's own archive when the entry's archive is set, and the disk file
\* at the entry's path when it is not; the Filesystem is unchanged.
C10_ReadToString ==
  [][call'.op = "read_to_string"
       => /\ read_result' # None
          /\ (read_result'[1].kind = "NotFound") <=> (call'.path \notin DOMAIN files)
          /\ (call'.path \in DOMAIN files /\ files[call'.path].archive # None)
               => /\ read_result'[1].kind = "archive"
                  /\ read_result'[1].path
                       = archives[files[call'.path].archive[1] + 1].path
                  /\ read_result'[1].start = files[call'.path].ptr
                  /\ read_result'[1].len = files[call'.path].size_compressed
          /\ (call'.path \in DOMAIN files /\ files[call'.path].archive = None)
               => /\ read_result'[1].kind = "disk"
                  /\ read_result'[1].path = call'.path
          /\ UNCHANGED <<fs_root, paths, files, archives>>]_vars

\* C10's case: a read served from an archive slice that is decompressed.
C10_Witness ==
  /\ call.op = "read_to_string"
  /\ read_result # None
  /\ read_result[1].kind = "archive"
  /\ read_result[1].lzo

\* The chunks of the archive file at path hold a header chunk.
HasHeaderChunk(path) ==
  \E i \in 1..Len(images[path]) : images[path][i].id = ARCHIVE_HEADER_CHUNK_ID

\* The auto_load key of the first header chunk of the archive file at path.
HeaderAutoLoad(path) ==
  images[path][CHOOSE i \in 1..Len(images[path]) :
                 /\ images[path][i].id = ARCHIVE_HEADER_CHUNK_ID
                 /\ \A j \in 1..(i - 1) : images[path][j].id # ARCHIVE_HEADER_CHUNK_ID
              ].data.auto_load

\* C14: for an archive without a chunk of id 666, process_archive takes
\* auto_load to be true and goes on to load_archive for the Archive it has
\* appended: the call ends as load_archive ends.
C14_AbsentHeaderLoads ==
  [][(/\ call'.op = "process_archive"
      /\ call'.stop = -1
      /\ ~HasHeaderChunk(canonicalize(call'.path)))
       => /\ Len(archives') = Len(archives) + 1
          /\ fpc' = load_archive(paths, images, archives', Len(archives)).fpc
          /\ loading' = load_archive(paths, images, archives', Len(archives)).loading]_vars

\* C15: for an archive whose header chunk has no auto_load key, or one that
\* is none of "on", "yes", "true", "1", process_archive appends the Archive
\* and leaves the files map as it was: no entry is enumerated.
C15_NoAutoLoadNoEntries ==
  [][(/\ call'.op = "process_archive"
      /\ call'.stop = -1
      /\ HasHeaderChunk(canonicalize(call'.path))
      /\ \/ HeaderAutoLoad(canonicalize(call'.path)) = None
         \/ HeaderAutoLoad(canonicalize(call'.path))[1] \notin {"on", "yes", "true", "1"})
       => /\ Len(archives') = Len(archives) + 1
          /\ SubSeq(archives', 1, Len(archives)) = archives
          /\ archives'[Len(archives')].path = canonicalize(call'.path)
          /\ files' = files
          /\ loading' = None
          /\ fpc' = "scan"]_vars

\* C15's case: process_archive has appended an Archive whose header has no
\* auto_load key, after files were registered.
C15_Witness ==
  /\ call.op = "process_archive"
  /\ call.stop = -1
  /\ archives # <<>>
  /\ archives[Len(archives)].path = canonicalize(call.path)
  /\ ~is_empty(archives[Len(archives)].header)
  /\ archives[Len(archives)].header.auto_load = None
  /\ loading = None
  /\ DOMAIN files # {}

\* C17: a line that is no comment and has fewer than three fields, a line
\* without '=' included, makes initialize return the InvalidFsLtxSyntax error
\* for that line; it neither succeeds nor panics.
C17_ShortLineIsSyntaxError ==
  [][(/\ fpc = "init"
      /\ line_idx <= Len(fs_ltx)
      /\ ~fs_ltx[line_idx].comment
      /\ (~fs_ltx[line_idx].has_eq \/ Len(fs_ltx[line_idx].values) < 3))
       => /\ fpc' = "failed"
          /\ line_idx' = line_idx]_vars

\* C18: of the ancestors a call register(p, Some(a), ..) writes, those two or
\* more levels above p get archive none; only p's parent can get a.
C18_OnlyParentCarriesArchive ==
  [][(call'.op = "register" /\ call'.archive # None)
       => \A n \in LastAncestorLen(call'.path)..(Len(call'.path) - 2) :
            n >= call'.stop
              => files'[SubSeq(call'.path, 1, n)].archive = None]_vars

\* C18's case: a register call for an archive member that wrote the parent
\* and the directory above it.
C18_Witness ==
  /\ call.op = "register"
  /\ call.archive # None
  /\ Len(call.path) >= 3
  /\ call.stop <= Len(call.path) - 2
  /\ files[SubSeq(call.path, 1, Len(call.path) - 1)].archive = call.archive
  /\ files[SubSeq(call.path, 1, Len(call.path) - 2)].archive = None

\* The complete sub-records of chunk 1 of the archive file at path, in the
\* order of the file: those before the first that the chunk's end cuts off.
Entries(path) ==
  LET chunk == images[path][CHOOSE i \in 1..Len(images[path]) :
                              /\ images[path][i].id = 1
                              /\ \A j \in 1..(i - 1) : images[path][j].id # 1].data
      whole == {n \in 0..Len(chunk) : \A i \in 1..n : ~chunk[i].truncated}
  IN SubSeq(chunk, 1, CHOOSE n \in whole : \A m \in whole : m <= n)

\* The directory an entry point names, for the aliases known: the path of
\* the alias before the first backslash (the empty path for an unknown
\* alias) joined with what follows the backslash.
EntryPointDir(entry_point, known) ==
  LET cut == CHOOSE i \in 1..Len(entry_point) :
               /\ entry_point[i] = "\\"
               /\ \A j \in 1..(i - 1) : entry_point[j] # "\\"
      alias == SubSeq(entry_point, 1, cut - 1)
      rest == SubSeq(entry_point, cut + 1, Len(entry_point))
  IN push(IF alias \in DOMAIN known THEN known[alias].path ELSE <<>>, rest)

\* load_archive has begun on the Archive appended last: its locals hold the
\* complete sub-records of chunk 1 and the directory of the entry point.
LoadBegins ==
  /\ loading'[1].archive_index = Len(archives)
  /\ loading'[1].buffers = Entries(archives'[Len(archives')].path)
  /\ loading'[1].entry_point
       = EntryPointDir(archives'[Len(archives')].header.entry_point[1], paths)

\* load_archive registers the sub-record it stands at, and goes on to the
\* next one.
EntryRegistered ==
  /\ call'.op = "register"
  /\ call'.path = push(loading[1].entry_point, loading[1].buffers[1].name)
  /\ call'.archive = Some(loading[1].archive_index)
  /\ files'[call'.path]
       = VirtualFile(call'.path, Some(loading[1].archive_index),
                     loading[1].buffers[1].size_real,
                     loading[1].buffers[1].size_compressed,
                     loading[1].buffers[1].ptr)
  /\ loading' = IF Len(loading[1].buffers) = 1 THEN None
                ELSE Some([loading[1] EXCEPT !.buffers = Tail(@)])
  /\ fpc' = fpc

FirstSymbol(inp) ==
  LET dc == decode_char(inp, start_huff([rd_pos |-> 4, get_buf |-> U32(0, 0),
                                         get_len |-> 0, freq |-> NewFreq,
                                         son |-> NewSon, parent |-> NewParent]))
  IN [c |-> dc.v,
      pos |-> IF dc.v < 256 THEN 0 ELSE decode_position(inp, dc.d).v]

\* The source index of the first back-reference: i = (N - F - pos - 1) mod N.
FirstSource(inp) == (N - F - FirstSymbol(inp).pos - 1) % N

\* The source range of a copy of j bytes from i lies in the positions below
\* N - F or in what the copy itself has written by then.
SourceInWindow(i, j) ==
  \A k \in 0..(j - 1) :
    \/ (i + k) % N < N - F
    \/ \E k2 \in 0..(k - 1) : (N - F + k2) % N = (i + k) % N

\* C19: when the first symbol of a stream is a back-reference whose source
\* range lies in the pre-initialised window or in bytes of the same copy,
\* every byte the symbol emits is 0x20.
C19_FirstMatchEmitsSpaces ==
  (/\ dpc \in {"loop", "done"}
   /\ count > 0
   /\ FirstSymbol(reader).c >= 256
   /\ SourceInWindow(FirstSource(reader), FirstSymbol(reader).c - 255 + THRESHOLD))
    => /\ Len(output) >= FirstSymbol(reader).c - 255 + THRESHOLD
       /\ \A k \in 1..(FirstSymbol(reader).c - 255 + THRESHOLD) : output[k] = 32

\* C19's case: a first back-reference of length F that starts one place
\* below N - F has been decoded, so that all but one byte of its source are
\* bytes of the same copy.
C19_Witness ==
  /\ dpc = "done"
  /\ count = F
  /\ FirstSymbol(reader).c = 255 - THRESHOLD + F
  /\ FirstSource(reader) = N - F - 1
  /\ \A k \in 1..F : output[k] = 32

\* C20: a stream whose size prefix is zero decodes to the empty buffer, and
\* no byte after the prefix is read, whatever follows it.
C20_ZeroPrefixReadsNothing ==
  (dpc = "done" /\ Len(reader) >= 4 /\ read_u32_le(reader) = 0)
    => /\ output = <<>>
       /\ rd_pos = 4
       /\ get_len = 0

\* C20's case: decode has returned for a zero prefix followed by bytes.
C20_Witness ==
  /\ dpc = "done"
  /\ Len(reader) = 4 + MaxBodyLen
  /\ read_u32_le(reader) = 0
  /\ reader[5] # 0

(***************************************************************************)
(* Properties of open_chunk                                                 *)
(***************************************************************************)

\* The first record, in file order, whose id is the one asked for and whose
\* header is in the file; past the last record when there is none.
FirstMatch ==
  LET matches(k) == /\ records[k].id = chunk_id
                    /\ RecordStart(records, k) + 8 <= Len(container)
  IN FirstUp(matches, 1, Len(records) + 1)

\* There is such a record and its payload is in the file to its last byte.
MatchComplete ==
  /\ FirstMatch <= Len(records)
  /\ RecordEnd(records, FirstMatch) <= Len(container)

\* open_chunk has returned Ok(Some(..)).
Returned == cpc = "some"

C12_FirstMatchReturned ==
  MatchComplete =>
     /\ cpc = "loop" =>
          \E k \in 1..FirstMatch : chunk_pos = RecordStart(records, k)
     /\ cpc \in {"decompress", "some", "err"} =>
          /\ chunk_pos = RecordEnd(records, FirstMatch)
          /\ source_data = records[FirstMatch].payload
     /\ cpc = "decompress" => records[FirstMatch].flagged /\ reader = source_data
     /\ cpc = "err" => records[FirstMatch].flagged /\ dpc = "err"
     /\ Returned =>
          chunk_result = IF records[FirstMatch].flagged THEN output ELSE source_data

\* C12's case: the record of id 1 that stores DE AD BE EF was returned after
\* a record whose payload holds the bytes of a record of id 1 was skipped,
\* and a later record of id 1 was not reached.
C12_Witness ==
  /\ Returned
  /\ chunk_id = IdOne
  /\ Len(records) = 3
  /\ records[1] = Stored(IdHeader, Decoy)
  /\ records[2] = Stored(IdOne, DeadBeef)
  /\ records[3].id = IdOne
  /\ chunk_result = DeadBeef
  /\ chunk_pos = RecordEnd(records, 2)

\* No record whose header is in the file has the id asked for.
NoMatch == FirstMatch > Len(records)

\* C13: when no record of the container has masked type equal to id,
\* open_chunk never reads a payload and never returns Ok, and it ends with
\* the error of the read at the end of the file, also after records of size
\* 0 and after a record whose size runs past the end.
C13_NoMatchIsError ==
  /\ [](NoMatch => cpc \in {"loop", "err"})
  /\ (NoMatch ~> cpc = "err")

\* C13's case: the scan went over a record of size 0, then skipped a record
\* whose size runs past the end of the file, and ended with the error.
C13_Witness ==
  /\ NoMatch
  /\ cpc = "err"
  /\ Len(records) = 2
  /\ records[1].payload = <<>>
  /\ RecordStart(records, 2) + 8 <= Len(container)
  /\ RecordEnd(records, 2) > Len(container)
  /\ chunk_pos > Len(container)

(***************************************************************************)
(* Properties of the archives list and of the aliases                       *)
(***************************************************************************)

\* C21: in every state archives[i].index is the position i (from 0) of the
\* Archive in the list; a step leaves the Archives it found where they were
\* and adds at most one at the end, and a call on a canonical path already
\* in the list adds none.
C21_IndexIsPosition ==
  /\ [](\A i \in 1..Len(archives) : archives[i].index = i - 1)
  /\ [][/\ Len(archives') \in {Len(archives), Len(archives) + 1}
        /\ \A i \in 1..Len(archives) :
             /\ archives'[i].path = archives[i].path
             /\ archives'[i].index = archives[i].index
        /\ (/\ call'.op = "process_archive"
            /\ is_archive(archives, canonicalize(call'.path)))
             => Len(archives') = Len(archives)]_vars

\* C21's case: the list holds two Archives and a third call, on a path that
\* canonicalises to the first one's, has returned.
C21_Witness ==
  /\ Len(archives) = 2
  /\ call.op = "process_archive"
  /\ call.stop = 0
  /\ archives[2].index = 1

\* The aliases the records before the k-th have declared.
DeclaredBefore(k) ==
  {fs_ltx[j].id : j \in {i \in 1..(k - 1) : ~fs_ltx[i].comment}}

\* A record up to the k-th names $fs_root$ as its root.
RootNamed(k) ==
  \E j \in 1..k : /\ j <= Len(fs_ltx)
                  /\ ~fs_ltx[j].comment
                  /\ Len(fs_ltx[j].values) >= 3
                  /\ fs_ltx[j].values[3] = <<FS_ROOT>>

\* The aliases a lookup can find while the k-th record is processed.
Visible(k) == DeclaredBefore(k) \cup (IF RootNamed(k) THEN {<<FS_ROOT>>} ELSE {})

\* The aliases the paths map holds once the k-th record is done.
AliasesAfter(k) == DeclaredBefore(k + 1) \cup (IF RootNamed(k) THEN {<<FS_ROOT>>} ELSE {})

\* The entry point's alias and what follows its first backslash.
EntryPointAlias(entry_point) ==
  SubSeq(entry_point, 1, split_once(entry_point) - 1)
EntryPointAdd(entry_point) ==
  SubSeq(entry_point, split_once(entry_point) + 1, Len(entry_point))

\* C22: while record k is processed the paths map holds the aliases of the
\* records before k, and $fs_root$ once a record has named it, and no other:
\* the root of record k is the path of such an alias or else the literal
\* root; an archive found during the scan of record k gets its entry point's
\* directory from such an alias or else the empty prefix; and the alias of
\* record k is stored by the step that ends the scan of record k.
C22_AliasesOfEarlierRecords ==
  /\ [](fpc = "scan" =>
          /\ DOMAIN paths = Visible(line_idx)
          /\ cur[1].id = fs_ltx[line_idx].id
          /\ cur[1].path.root
               = IF fs_ltx[line_idx].values[3] \in Visible(line_idx)
                   THEN paths[fs_ltx[line_idx].values[3]].path
                   ELSE fs_ltx[line_idx].values[3])
  /\ [](fpc \in {"init", "ready"} => DOMAIN paths = AliasesAfter(line_idx - 1))
  /\ [][(loading = None /\ loading' # None) =>
          \E ep \in {archives'[Len(archives')].header.entry_point[1]} :
            loading'[1].entry_point
              = IF EntryPointAlias(ep) \in Visible(line_idx)
                  THEN push(paths[EntryPointAlias(ep)].path, EntryPointAdd(ep))
                  ELSE EntryPointAdd(ep)]_vars
  /\ [][(fpc = "scan" /\ fpc' = "init") =>
          /\ stack' = <<>>
          /\ paths' = insert(paths, cur[1].id, cur[1].path)]_vars

\* C22's case: during the scan of the first record, which declares
\* $arch_dir$ under $fs_root$, an archive whose entry point names $arch_dir$
\* is being loaded into the relative directory tex.
C22_Witness ==
  /\ fpc = "scan"
  /\ line_idx = 1
  /\ fs_ltx[1] = ArchivesLine
  /\ DOMAIN paths = {<<FS_ROOT>>}
  /\ loading # None
  /\ archives[Len(archives)].header.entry_point = Some(<<"$arch_dir$", "\\", "tex">>)
  /\ loading[1].entry_point = <<"tex">>

\* C23: the registration of the directory itself at the end of recurse(dir)
\* changes nothing when dir has an entry: the entry of dir and the entries
\* of its ancestors are after the step what they were before it.
C23_DirectoryRegisteredOnce ==
  [][(/\ fpc = "scan"
      /\ loading = None
      /\ stack # <<>>
      /\ stack[1].dir = {}
      /\ stack[1].path \in DOMAIN files)
       => \A p \in {stack[1].path} \cup ProperAncestors(stack[1].path) :
            p \in DOMAIN files => files'[p] = files[p]]_vars

(***************************************************************************)
(* Properties of the tree                                                   *)
(***************************************************************************)

\* Node i of tree d is a leaf: son[i] names a symbol.
IsLeaf(d, i) == d.son[i] >= T

\* The sum of the frequencies of the leaves of d.
LeafSum(d) ==
  LET add(s, i) == IF IsLeaf(d, i) THEN s + d.freq[i] ELSE s
  IN For(add, 0, 0, T)

\* Each symbol is the son of exactly one node, which parent[] points back to.
LeavesOK(d) ==
  /\ \A s \in 0..(N_CHAR - 1) :
       /\ d.parent[s + T] \in 0..R
       /\ d.son[d.parent[s + T]] = s + T
  /\ \A i \in 0..R : IsLeaf(d, i) => d.son[i] < T + N_CHAR /\ d.parent[d.son[i]] = i

\* Each internal node lies above its two children, is their parent and
\* holds the sum of their frequencies.
NodesOK(d) ==
  \A i \in 0..R :
    ~IsLeaf(d, i) =>
      /\ d.son[i] < i
      /\ d.parent[d.son[i]] = i
      /\ d.parent[d.son[i] + 1] = i
      /\ d.freq[i] = d.freq[d.son[i]] + d.freq[d.son[i] + 1]

\* freq is non-decreasing over the nodes 0..T-1.
Ordered(d) == \A i \in 0..(R - 1) : d.freq[i] <= d.freq[i + 1]

\* C30: after start_huff, after every update and after every reconst, freq,
\* son and parent hold a Huffman tree with the sibling property: each symbol
\* is a leaf exactly once with parent[son[i]] = i, each internal node i has
\* son[i] < i, is the parent of son[i] and son[i] + 1 and holds the sum of
\* their frequencies, freq is non-decreasing over 0..T-1, and freq[R] is the
\* sum of the leaf frequencies.
C30_SiblingProperty ==
  /\ LeavesOK(DecoderState)
  /\ NodesOK(DecoderState)
  /\ Ordered(DecoderState)
  /\ freq[R] = LeafSum(DecoderState)

\* C30's case: reconst has run and updates have reordered the rebuilt tree.
C30_Witness ==
  /\ reconsts = 1
  /\ updates = MaxUpdates
  /\ schedule = "mixed"
  /\ \E i \in 0..(N_CHAR - 1) : ~IsLeaf(DecoderState, i)

\* The symbols the next call of update may be for.
Pending ==
  IF schedule \in Schedules /\ updates < MaxUpdates THEN {Sym(schedule, updates)}
  ELSE IF schedule = "free" /\ updates < MaxFree THEN FreeSymbols
  ELSE {}

\* The loop of update from node c on tree d: every sibling search that runs
\* stops at index T or before, and the pass after which parent[c] is 0 is
\* the pass of the root.
RECURSIVE UpdateEnds(_, _)
UpdateEnds(d, c) ==
  /\ c \in 0..R
  /\ \E raised \in {[d EXCEPT !.freq[c] = @ + 1]} :
       raised.freq[c] > raised.freq[c + 1] => update_search(raised, c) <= T
  /\ \E s \in {update_node(d, c)} :
       IF s.d.parent[s.c] = 0 THEN s.c = R ELSE UpdateEnds(s.d, s.d.parent[s.c])

\* The first pass of update for symbol c on tree d runs the sibling search.
Searches(d, c) == d.freq[d.parent[c + T]] + 1 > d.freq[d.parent[c + T] + 1]

\* C24: in every call of update the sibling search stops at index T at the
\* latest, the sentinel freq[T] = 0xFFFF lying above every node frequency,
\* and the ascent ends after the pass of the root R: parent[R] is 0 and no
\* other node has parent 0, after start_huff, every update and every reconst.
C24_UpdateTerminates ==
  /\ freq[T] = 65535
  /\ \A i \in 0..R : freq[i] < freq[T]
  /\ parent[R] = 0
  /\ \A x \in 0..(R - 1) : parent[x] # 0
  /\ freq[R] # MAX_FREQ =>
       \A c \in Pending : UpdateEnds(DecoderState, parent[c + T])

\* C24's case: after reconst, a call of update whose first pass searches.
C24_Witness ==
  /\ reconsts = 1
  /\ freq[R] # MAX_FREQ
  /\ \E c \in Pending : Searches(DecoderState, c)

\* The sum over the leaves of d of their frequencies halved as reconst
\* halves them.
HalvedLeafSum(d) ==
  LET add(s, i) == IF IsLeaf(d, i) THEN s + ((d.freq[i] + 1) \div 2) ELSE s
  IN For(add, 0, 0, T)

\* A step of the runs that is a call of update after its test of freq[R].
UpdateStep == updates' = updates + 1

\* A step of the runs that is the call of reconst.
ReconstStep == reconsts' = reconsts + 1

\* C25: freq[R] never exceeds MAX_FREQ; each update raises freq[R] by
\* exactly 1; reconst runs exactly when an update starts with
\* freq[R] == MAX_FREQ; after reconst freq[R] is the sum of the halved leaf
\* frequencies, which is below MAX_FREQ.
C25_RootFrequencyBounded ==
  /\ [](freq[R] <= MAX_FREQ)
  /\ [][/\ ReconstStep <=> freq[R] = MAX_FREQ
        /\ UpdateStep <=> freq[R] # MAX_FREQ
        /\ UpdateStep => freq'[R] = freq[R] + 1
        /\ ReconstStep => /\ freq'[R] = HalvedLeafSum(DecoderState)
                          /\ freq'[R] < MAX_FREQ]_vars

\* C25's case: the update after reconst has raised the root from the sum of
\* the halved leaf frequencies.
C25_Witness ==
  /\ reconsts = 1
  /\ schedule = "round"
  /\ updates = MaxUpdates
  /\ freq[R] < MAX_FREQ

\* The children of every internal node sit at son[i] and son[i] + 1, son[i]
\* being even.
PairsOK(d) ==
  \A i \in 0..R :
    ~IsLeaf(d, i) =>
      /\ d.son[i] % 2 = 0
      /\ d.parent[d.son[i]] = i
      /\ d.parent[d.son[i] + 1] = i

\* C26 as stated: after start_huff, every update and every reconst the
\* nodes 0..T-1 are in strict ascending order of frequency, and the two
\* children of every internal node i sit at son[i] and son[i] + 1 with
\* son[i] even.
C26_StrictlyAscending ==
  /\ \A i \in 0..(R - 1) : freq[i] < freq[i + 1]
  /\ PairsOK(DecoderState)

\* C26, amended: after start_huff, every update and every reconst the
\* frequencies of the nodes 0..T-1 never decrease with the index (equal
\* frequencies lie side by side), and the two children of every internal
\* node i sit at son[i] and son[i] + 1 with son[i] even.
C26_Ascending ==
  /\ Ordered(DecoderState)
  /\ PairsOK(DecoderState)

\* C26's case: an update has exchanged a node with the last one of a run of
\* equal frequencies, and equal frequencies remain.
C26_Witness ==
  /\ schedule = "free"
  /\ updates = 2
  /\ son[N_CHAR - 1] = T + 32
  /\ freq[N_CHAR - 1] = 2
  /\ freq[0] = freq[1]

\* The second loop of reconst from pass j on, on tree d: each insertion
\* point lies above both children i and i + 1 of the node inserted.
RECURSIVE PointsAbove(_, _)
PointsAbove(d, j) ==
  \/ j >= T
  \/ /\ reconst_point(d, j, d.freq[2 * (j - N_CHAR)] + d.freq[2 * (j - N_CHAR) + 1])
          >= 2 * (j - N_CHAR) + 2
     /\ \E next \in {reconst_connect(d, j)} : PointsAbove(next, j + 1)

\* C27: reconst takes the frequency f of each leaf to (f+1)/2 rounded down,
\* at least 1, keeps each symbol the son of exactly one node, inserts each
\* internal node at a point k >= i + 2 above its children i and i + 1, and
\* leaves freq sorted.
C27_ReconstKeepsLeaves ==
  [][ReconstStep =>
       /\ \A s \in 0..(N_CHAR - 1) :
            /\ Cardinality({i \in 0..R : son[i] = s + T}) = 1
            /\ Cardinality({i \in 0..R : son'[i] = s + T}) = 1
            /\ son'[parent'[s + T]] = s + T
            /\ freq'[parent'[s + T]] = (freq[parent[s + T]] + 1) \div 2
            /\ freq'[parent'[s + T]] >= 1
       /\ PointsAbove(For(reconst_collect, [d |-> DecoderState, j |-> 0], 0, T).d,
                      N_CHAR)
       /\ \A i \in 0..(R - 1) : freq'[i] <= freq'[i + 1]]_vars

\* C27's case: the tree reconst leaves when one symbol took every update:
\* its leaf holds half of its count and the other leaves stay at 1.
C27_Witness ==
  /\ reconsts = 1
  /\ schedule = "single"
  /\ updates = MAX_FREQ - N_CHAR
  /\ freq[parent[32 + T]] = (MAX_FREQ - N_CHAR + 2) \div 2
  /\ freq[0] = 1

(***************************************************************************)
(* Properties of the bit reservoir                                          *)
(***************************************************************************)

\* Bit k (from 0) of the stream after the size prefix, most significant bit
\* of each byte first, 0 past the last byte.
StreamBit(k) ==
  IF 4 + (k \div 8) < Len(reader)
    THEN (reader[4 + (k \div 8) + 1] \div Pow2(7 - (k % 8))) % 2
    ELSE 0

\* The value of the n bits of the stream from bit k on.
RECURSIVE StreamValue(_, _)
StreamValue(k, n) ==
  IF n = 0 THEN 0 ELSE 2 * StreamValue(k, n - 1) + StreamBit(k + n - 1)

\* The number of bits the first c calls delivered.
RECURSIVE Taken(_)
Taken(c) == IF c = 0 THEN 0 ELSE Taken(c - 1) + delivered[c].n

\* C28: for any interleaving of get_bit and get_byte the values returned are
\* the bits of the input after the size prefix, in order, most significant
\* bit first, zero bits past its end (get_byte returning the next 8); the
\* reservoir holds the next get_len bits of the stream in the top of its low
\* 16 bits and zeros below them; get_len is 8..15 after get_bit and 1..8
\* after get_byte.
C28_ReservoirIsFifo ==
  /\ \A c \in 1..Len(delivered) :
       delivered[c].v = StreamValue(Taken(c - 1), delivered[c].n)
  /\ get_len \in 0..16
  /\ get_buf.lo \div Pow2(16 - get_len) = StreamValue(Taken(Len(delivered)), get_len)
  /\ get_buf.lo % Pow2(16 - get_len) = 0
  /\ delivered # <<>> =>
       IF delivered[Len(delivered)].n = 1 THEN get_len \in 8..15 ELSE get_len \in 1..8

\* C28's case: get_bit and get_byte interleaved across byte boundaries up to
\* and past the end of a stream whose last bits are not zero.
C28_Witness ==
  /\ reader = <<1, 0, 0, 0, 165, 255>>
  /\ Len(delivered) = 5
  /\ delivered[1] = [n |-> 1, v |-> 1]
  /\ delivered[2] = [n |-> 8, v |-> 75]
  /\ delivered[3] = [n |-> 1, v |-> 1]
  /\ delivered[4] = [n |-> 8, v |-> 252]
  /\ delivered[5] = [n |-> 8, v |-> 0]

(***************************************************************************)
(* Array indices of the decoder                                             *)
(***************************************************************************)

\* Every index the walk of decode_char and the loops of update and reconst
\* take from son and parent lies within the array it is used on.
TreeIndicesOK(d) ==
  /\ DOMAIN d.freq = 0..T
  /\ DOMAIN d.son = 0..(T - 1)
  /\ DOMAIN d.parent = 0..(T + N_CHAR)
  /\ \A i \in 0..R :
       IF IsLeaf(d, i) THEN d.son[i] \in T..(T + N_CHAR - 1)
       ELSE d.son[i] \in 0..(R - 1)
  /\ \A x \in (0..R) \cup (T..(T + N_CHAR - 1)) : d.parent[x] \in 0..R

\* The pass of decode's loop that comes next stays within its arrays: the
\* symbol, the length and the position it decodes and the window indices
\* it reads.
RECURSIVE WalkOK(_, _, _)
WalkOK(inp, d, c) ==
  \/ c >= T
  \/ \E g \in {get_bit(inp, d)} :
       /\ c + g.v \in 0..(T - 1)
       /\ WalkOK(inp, g.d, g.d.son[c + g.v])

PassOK ==
  /\ R \in DOMAIN son
  /\ WalkOK(reader, DecoderState, son[R])
  /\ \E dc \in {decode_char(reader, DecoderState)} :
       /\ dc.v \in 0..(N_CHAR - 1)
       /\ dc.v >= 256 =>
            /\ dc.v - 255 + THRESHOLD \in (THRESHOLD + 1)..F
            /\ \E dp \in {decode_position(reader, dc.d)} :
                 /\ dp.v \in 0..(N - 1)
                 /\ \A k \in 0..(dc.v - 255 + THRESHOLD - 1) :
                      (((r - (dp.v + 1)) % N) + k) % N \in DOMAIN text_buf

\* C29: every array access made during decode is in bounds: decode_char
\* returns a symbol in [0, N_CHAR), the match length is in [3, 60],
\* decode_position returns a distance in [0, N) (D_CODE below 64, D_LEN in
\* 3..8), the write cursor r and every source index stay in [0, N), and
\* every index used on freq, son and parent in decode_char, update and
\* reconst is within the array.
C29_IndicesInBounds ==
  /\ \A b \in 1..256 : D_CODE[b] \in 0..63 /\ D_LEN[b] \in 3..8
  /\ dpc = "loop" =>
       /\ r \in 0..(N - 1)
       /\ DOMAIN text_buf = 0..(N + F - 1)
       /\ count < text_size => PassOK
  /\ (dpc = "loop" \/ schedule # "none") =>
       /\ TreeIndicesOK(DecoderState)
       /\ freq[R] # MAX_FREQ =>
            \A c \in Pending \cup (IF dpc = "loop" THEN FreeSymbols ELSE {}) :
              UpdateEnds(DecoderState, parent[c + T])
       /\ freq[R] = MAX_FREQ =>
            /\ Cardinality({i \in 0..R : IsLeaf(DecoderState, i)}) = N_CHAR
            /\ PointsAbove(For(reconst_collect, [d |-> DecoderState, j |-> 0], 0, T).d,
                           N_CHAR)

\* C29's case: a back-reference of the longest length has been copied and
\* the write cursor has wrapped from N - F round to 0.
C29_Witness ==
  /\ dpc = "loop"
  /\ count = F
  /\ r = 0
  /\ Len(output) = F
====
